---- MODULE Spec2Model ----
(***************************************************************************)
(* A model of the `users` crate (ogham/rust-users): the raw passwd/group   *)
(* lookups, the OSUsers cache that memoizes them in two maps per entity,   *)
(* and the functions that switch the process's user and group ids.         *)
(*                                                                         *)
(* The repository holds two generations of the cache: the one inside       *)
(* src/lib.rs and the later one in src/os.rs.  They differ in where a      *)
(* name with an embedded NUL is rejected, so the variable `snapshot`       *)
(* fixes which of the two a behaviour runs.  The same holds for            *)
(* switch_user_group (src/lib.rs, src/switch.rs, src/switch/redox.rs).     *)
(*                                                                         *)
(* Strings are sequences of bytes.  A C string is a byte sequence that     *)
(* ends at its first NUL; a Rust string has no terminator and may hold     *)
(* NUL bytes anywhere.  Option<T> is a set with at most one element.       *)
(***************************************************************************)
EXTENDS Integers, Sequences, FiniteSets, TLC

\* ------------------------------------------------------------------ bounds

\* Longest passwd database (number of records) the model enumerates.
MaxRecords == 2

\* Raw-call counters saturate here; memoization keeps them at 0 or 1.
MaxCalls == 2

\* SwitchUserGuards the program holds at one time.
MaxGuards == 2

\* Pointers in the memory at gr_mem, terminator and what lies behind it
\* included.
MaxMembers == 3

\* Records of the passwd database an iterator walks.
MaxUsers == 3

\* AllUsers iterators created in one run.
MaxIters == 2

\* Calls of next() on one iterator.
MaxAdvance == 4

\* Calls of add_user and add_group on one MockUsers.
MaxAdds == 3

\* ------------------------------------------------------- values and inputs

NUL == 0

None == {}

Some(x) == {x}

\* The value inside a Some.
Unwrap(o) == CHOOSE x \in o : TRUE

Uids == {1, 2}

Gids == {1, 2}

\* Names a caller may ask for: "a", "b", and "a\0", which has an embedded NUL.
Names == { <<97>>, <<98>>, <<97, NUL>> }

\* The records /etc/passwd can hold: "a" and "b" may share uid 1.
PasswdRecs ==
    { [pw_name |-> <<97, NUL>>, pw_uid |-> 1, pw_gid |-> 1],
      [pw_name |-> <<98, NUL>>, pw_uid |-> 1, pw_gid |-> 2],
      [pw_name |-> <<98, NUL>>, pw_uid |-> 2, pw_gid |-> 2] }

\* The records /etc/group can hold.
GroupRecs ==
    { [gr_name |-> <<97, NUL>>, gr_gid |-> 1,
        gr_mem |-> Some(<< Some(<<98, NUL>>), None >>)] }

\* Sequences over S of length at most n.
RECURSIVE SeqsUpTo(_, _)
SeqsUpTo(S, n) ==
    IF n = 0 THEN { <<>> }
    ELSE LET shorter == SeqsUpTo(S, n - 1)
         IN  shorter \cup { Append(s, x) : s \in shorter, x \in S }

NoRepeat(s) == \A i, j \in 1..Len(s) : i # j => s[i] # s[j]

PasswdDbs == { s \in SeqsUpTo(PasswdRecs, MaxRecords) : NoRepeat(s) }

GroupDbs == { s \in SeqsUpTo(GroupRecs, 1) : NoRepeat(s) }

\* --------------------------------------------------------------- C strings

\* Index of the terminator of the C string starting at buf[1].
Terminator(buf) == CHOOSE i \in 1..Len(buf) :
                       buf[i] = NUL /\ \A j \in 1..(i - 1) : buf[j] # NUL

\* CStr::from_ptr(p).to_bytes(): the bytes before the terminator.
CStrBytes(buf) == SubSeq(buf, 1, Terminator(buf) - 1)

\* CString::new: Err (None) on an interior NUL, else the bytes plus a
\* terminator.
CStringNewUnchecked(s) == Some(s \o <<NUL>>)

CStringNew(s) ==
    IF \E i \in 1..Len(s) : s[i] = NUL THEN None ELSE Some(s \o <<NUL>>)

\* Copies a C string out of the library's buffer into an owned String.
from_raw_buf(p) == CStrBytes(p)

\* ------------------------------------------------------------ libc lookups

\* One libc call, as it appears in a trace: the function, its id or name
\* argument, and for the calls that can fail the errno it set (0: success).
Sys(fn, id, name, errno) == [fn |-> fn, id |-> id, name |-> name, errno |-> errno]

Call(fn, id, name) == Sys(fn, id, name, 0)

\* The first element of sequence db that satisfies Test, as an Option.
First(db, Test(_)) ==
    IF \E i \in 1..Len(db) : Test(db[i])
    THEN Some(db[CHOOSE i \in 1..Len(db) :
                    Test(db[i]) /\ \A j \in 1..(i - 1) : ~Test(db[j])])
    ELSE None

\* getpwuid / getpwnam / getgrgid / getgrnam: a pointer to the first matching
\* entry, or null.
getpwuid(db, uid) == LET T(r) == r.pw_uid = uid IN First(db, T)

getpwnam(db, cname) ==
    LET T(r) == CStrBytes(r.pw_name) = CStrBytes(cname) IN First(db, T)

getgrgid(db, gid) == LET T(r) == r.gr_gid = gid IN First(db, T)

getgrnam(db, cname) ==
    LET T(r) == CStrBytes(r.gr_name) = CStrBytes(cname) IN First(db, T)

\* ------------------------------------------------------------- marshalling

passwd_to_user(pointer) ==
    IF pointer # None
    THEN LET pw == Unwrap(pointer)
         IN  Some([uid |-> pw.pw_uid,
                   name |-> from_raw_buf(pw.pw_name),
                   primary_group |-> pw.pw_gid])
    ELSE None

\* Expands gr_mem, a possibly-null pointer to an array of possibly-null
\* C-string pointers, from offset i up to the first null.
RECURSIVE members_from(_, _)
members_from(groups, i) ==
    IF groups = None \/ Unwrap(groups)[i] = None
    THEN <<>>
    ELSE <<from_raw_buf(Unwrap(Unwrap(groups)[i]))>> \o members_from(groups, i + 1)

\* A members that takes every entry of the array that is not null.
members_all(groups) ==
    IF groups = None THEN <<>>
    ELSE LET arr == Unwrap(groups)
             F[i \in 0..Len(arr)] ==
                 IF i = 0 THEN <<>>
                 ELSE IF arr[i] = None THEN F[i - 1]
                 ELSE Append(F[i - 1], from_raw_buf(Unwrap(arr[i])))
         IN  F[Len(arr)]

members(groups) == members_from(groups, 1)

struct_to_group(pointer) ==
    IF pointer # None
    THEN LET gr == Unwrap(pointer)
         IN  Some([gid |-> gr.gr_gid,
                   name |-> from_raw_buf(gr.gr_name),
                   members |-> members(gr.gr_mem)])
    ELSE None

\* ------------------------------------------------------ uncached lookups
\* Each returns the Option it yields and the libc calls it made.

base_get_user_by_uid(db, uid) ==
    [ret |-> passwd_to_user(getpwuid(db, uid)),
     trace |-> << Call("getpwuid", uid, <<>>) >>]

base_get_user_by_name(db, username) ==
    LET username_c == CStringNew(username)
    IN  IF username_c # None
        THEN [ret |-> passwd_to_user(getpwnam(db, Unwrap(username_c))),
              trace |-> << Call("getpwnam", 0, Unwrap(username_c)) >>]
        ELSE [ret |-> None, trace |-> <<>>]

base_get_group_by_gid(db, gid) ==
    [ret |-> struct_to_group(getgrgid(db, gid)),
     trace |-> << Call("getgrgid", gid, <<>>) >>]

base_get_group_by_name(db, group_name) ==
    LET group_name_c == CStringNew(group_name)
    IN  IF group_name_c # None
        THEN [ret |-> struct_to_group(getgrnam(db, Unwrap(group_name_c))),
              trace |-> << Call("getgrnam", 0, Unwrap(group_name_c)) >>]
        ELSE [ret |-> None, trace |-> <<>>]

\* ------------------------------------------------------------ the cache

\* An insert that drops every older binding of the map.
PutAlone(m, k, v) == [x \in {k} |-> v]

\* HashMap::insert / Entry::insert: binds k to v, replacing an older binding.
Put(m, k, v) == [x \in (DOMAIN m) \cup {k} |-> IF x = k THEN v ELSE m[x]]

EmptyMap == [x \in {} |-> None]

\* OSUsers::empty_cache()
empty_cache ==
    [users  |-> [forward |-> EmptyMap, backward |-> EmptyMap],
     groups |-> [forward |-> EmptyMap, backward |-> EmptyMap],
     uid |-> None, gid |-> None, euid |-> None, egid |-> None]

\* What a cache method hands back: the cache afterwards, the value returned,
\* the libc calls made, and whether the method panicked instead of returning.
Outcome(c, ret, trace) ==
    [cache |-> c, ret |-> ret, trace |-> trace, panicked |-> FALSE]

Panic(c, trace) ==
    [cache |-> c, ret |-> None, trace |-> trace, panicked |-> TRUE]

\* HashMap's Index: forward[&id] panics when the key is missing.
IndexForward(c, forward, id) ==
    IF id \in DOMAIN forward
    THEN Outcome(c, forward[id], <<>>)
    ELSE Panic(c, <<>>)

OSUsers_get_user_by_uid_uncached(c, db, uid) ==
    LET raw == base_get_user_by_uid(db, uid)
    IN  Outcome(c, raw.ret, raw.trace)

OSUsers_get_user_by_uid_forgets_miss(c, db, uid) ==
    IF uid \notin DOMAIN c.users.forward
    THEN LET raw == base_get_user_by_uid(db, uid)
         IN  IF raw.ret # None
             THEN LET user == Unwrap(raw.ret)
                  IN  Outcome([c EXCEPT
                                 !.users.forward = Put(@, uid, Some(user)),
                                 !.users.backward = Put(@, user.name, Some(user.uid))],
                              Some(user), raw.trace)
             ELSE Outcome(c, None, raw.trace)
    ELSE Outcome(c, c.users.forward[uid], <<>>)

\* A get_user_by_uid that records the name of what it found and not the
\* record.
OSUsers_get_user_by_uid_name_only(c, db, uid) ==
    IF uid \notin DOMAIN c.users.forward
    THEN LET raw == base_get_user_by_uid(db, uid)
         IN  IF raw.ret # None
             THEN LET user == Unwrap(raw.ret)
                  IN  Outcome([c EXCEPT
                                 !.users.backward = Put(@, user.name, Some(user.uid))],
                              Some(user), raw.trace)
             ELSE Outcome([c EXCEPT !.users.forward = Put(@, uid, None)],
                          None, raw.trace)
    ELSE Outcome(c, c.users.forward[uid], <<>>)

OSUsers_get_user_by_uid(c, db, uid) ==
    IF uid \notin DOMAIN c.users.forward
    THEN LET raw == base_get_user_by_uid(db, uid)
         IN  IF raw.ret # None
             THEN LET user == Unwrap(raw.ret)
                  IN  Outcome([c EXCEPT
                                 !.users.forward = Put(@, uid, Some(user)),
                                 !.users.backward = Put(@, user.name, Some(user.uid))],
                              Some(user), raw.trace)
             ELSE Outcome([c EXCEPT !.users.forward = Put(@, uid, None)],
                          None, raw.trace)
    ELSE Outcome(c, c.users.forward[uid], <<>>)

\* src/os.rs: the raw lookup rejects a name with a NUL, and its None is
\* stored like any other miss.
os_get_user_by_name(c, db, username) ==
    IF username \notin DOMAIN c.users.backward
    THEN LET raw == base_get_user_by_name(db, username)
         IN  IF raw.ret # None
             THEN LET user == Unwrap(raw.ret)
                  IN  Outcome([c EXCEPT
                                 !.users.backward = Put(@, username, Some(user.uid)),
                                 !.users.forward = Put(@, user.uid, Some(user))],
                              Some(user), raw.trace)
             ELSE Outcome([c EXCEPT !.users.backward = Put(@, username, None)],
                          None, raw.trace)
    ELSE IF c.users.backward[username] # None
         THEN IndexForward(c, c.users.forward, Unwrap(c.users.backward[username]))
         ELSE Outcome(c, None, <<>>)

\* src/lib.rs: the cache method itself builds the CString and returns early,
\* before any insert, when that fails.
lib_get_user_by_name(c, db, username) ==
    IF username \notin DOMAIN c.users.backward
    THEN LET username_c == CStringNew(username)
         IN  IF username_c = None
             THEN Outcome(c, None, <<>>)
             ELSE LET cname == Unwrap(username_c)
                      user_opt == passwd_to_user(getpwnam(db, cname))
                      trace == << Call("getpwnam", 0, cname) >>
                  IN  IF user_opt # None
                      THEN LET user == Unwrap(user_opt)
                           IN  Outcome([c EXCEPT
                                  !.users.backward = Put(@, username, Some(user.uid)),
                                  !.users.forward = Put(@, user.uid, Some(user))],
                                  Some(user), trace)
                      ELSE Outcome([c EXCEPT !.users.backward = Put(@, username, None)],
                                   None, trace)
    ELSE IF c.users.backward[username] # None
         THEN IndexForward(c, c.users.forward, Unwrap(c.users.backward[username]))
         ELSE Outcome(c, None, <<>>)

OSUsers_get_user_by_name(snap, c, db, username) ==
    IF snap = "lib" THEN lib_get_user_by_name(c, db, username)
    ELSE os_get_user_by_name(c, db, username)

OSUsers_get_group_by_gid(c, db, gid) ==
    IF gid \notin DOMAIN c.groups.forward
    THEN LET raw == base_get_group_by_gid(db, gid)
         IN  IF raw.ret # None
             THEN LET group == Unwrap(raw.ret)
                  IN  Outcome([c EXCEPT
                                 !.groups.forward = Put(@, gid, Some(group)),
                                 !.groups.backward = Put(@, group.name, Some(group.gid))],
                              Some(group), raw.trace)
             ELSE Outcome([c EXCEPT !.groups.forward = Put(@, gid, None)],
                          None, raw.trace)
    ELSE Outcome(c, c.groups.forward[gid], <<>>)

os_get_group_by_name(c, db, group_name) ==
    IF group_name \notin DOMAIN c.groups.backward
    THEN LET raw == base_get_group_by_name(db, group_name)
         IN  IF raw.ret # None
             THEN LET group == Unwrap(raw.ret)
                  IN  Outcome([c EXCEPT
                                 !.groups.backward = Put(@, group_name, Some(group.gid)),
                                 !.groups.forward = Put(@, group.gid, Some(group))],
                              Some(group), raw.trace)
             ELSE Outcome([c EXCEPT !.groups.backward = Put(@, group_name, None)],
                          None, raw.trace)
    ELSE IF c.groups.backward[group_name] # None
         THEN IndexForward(c, c.groups.forward, Unwrap(c.groups.backward[group_name]))
         ELSE Outcome(c, None, <<>>)

lib_get_group_by_name(c, db, group_name) ==
    IF group_name \notin DOMAIN c.groups.backward
    THEN LET group_name_c == CStringNew(group_name)
         IN  IF group_name_c = None
             THEN Outcome(c, None, <<>>)
             ELSE LET cname == Unwrap(group_name_c)
                      group_opt == struct_to_group(getgrnam(db, cname))
                      trace == << Call("getgrnam", 0, cname) >>
                  IN  IF group_opt # None
                      THEN LET group == Unwrap(group_opt)
                           IN  Outcome([c EXCEPT
                                  !.groups.backward = Put(@, group_name, Some(group.gid)),
                                  !.groups.forward = Put(@, group.gid, Some(group))],
                                  Some(group), trace)
                      ELSE Outcome([c EXCEPT !.groups.backward = Put(@, group_name, None)],
                                   None, trace)
    ELSE IF c.groups.backward[group_name] # None
         THEN IndexForward(c, c.groups.forward, Unwrap(c.groups.backward[group_name]))
         ELSE Outcome(c, None, <<>>)

OSUsers_get_group_by_name(snap, c, db, group_name) ==
    IF snap = "lib" THEN lib_get_group_by_name(c, db, group_name)
    ELSE os_get_group_by_name(c, db, group_name)

\* ------------------------------------------------- the process's own ids
\* proc is the kernel's record of the process: real and effective ids.

libc_getuid(p) == p.uid

libc_geteuid(p) == p.euid

libc_getgid(p) == p.gid

libc_getegid(p) == p.egid

OSUsers_get_current_uid(c, p) ==
    IF c.uid # None
    THEN Outcome(c, c.uid, <<>>)
    ELSE LET uid == libc_getuid(p)
         IN  Outcome([c EXCEPT !.uid = Some(uid)], Some(uid),
                     << Call("getuid", 0, <<>>) >>)

OSUsers_get_current_gid(c, p) ==
    IF c.gid # None
    THEN Outcome(c, c.gid, <<>>)
    ELSE LET gid == libc_getgid(p)
         IN  Outcome([c EXCEPT !.gid = Some(gid)], Some(gid),
                     << Call("getgid", 0, <<>>) >>)

OSUsers_get_effective_gid(c, p) ==
    IF c.egid # None
    THEN Outcome(c, c.egid, <<>>)
    ELSE LET gid == libc_getegid(p)
         IN  Outcome([c EXCEPT !.egid = Some(gid)], Some(gid),
                     << Call("getegid", 0, <<>>) >>)

\* A get_effective_uid that asks the OS on every call.
OSUsers_get_effective_uid_rereads(c, p) ==
    LET uid == libc_geteuid(p)
    IN  Outcome([c EXCEPT !.euid = Some(uid)], Some(uid),
                << Call("geteuid", 0, <<>>) >>)

OSUsers_get_effective_uid(c, p) ==
    IF c.euid # None
    THEN Outcome(c, c.euid, <<>>)
    ELSE LET uid == libc_geteuid(p)
         IN  Outcome([c EXCEPT !.euid = Some(uid)], Some(uid),
                     << Call("geteuid", 0, <<>>) >>)

\* Option::map(|u| u.name)
MapName(o) == { x.name : x \in o }

\* `first` then `second` on the cache `first` left behind.
Then(first, second, ret) ==
    [cache |-> second.cache, ret |-> ret,
     trace |-> first.trace \o second.trace, panicked |-> second.panicked]

OSUsers_get_current_username_of_euid(c, db, p) ==
    LET uid == OSUsers_get_effective_uid(c, p)
        user == OSUsers_get_user_by_uid(uid.cache, db, Unwrap(uid.ret))
    IN  Then(uid, user, MapName(user.ret))

OSUsers_get_current_username(c, db, p) ==
    LET uid == OSUsers_get_current_uid(c, p)
        user == OSUsers_get_user_by_uid(uid.cache, db, Unwrap(uid.ret))
    IN  Then(uid, user, MapName(user.ret))

OSUsers_get_current_groupname(c, db, p) ==
    LET gid == OSUsers_get_current_gid(c, p)
        group == OSUsers_get_group_by_gid(gid.cache, db, Unwrap(gid.ret))
    IN  Then(gid, group, MapName(group.ret))

OSUsers_get_effective_groupname(c, db, p) ==
    LET gid == OSUsers_get_effective_gid(c, p)
        group == OSUsers_get_group_by_gid(gid.cache, db, Unwrap(gid.ret))
    IN  Then(gid, group, MapName(group.ret))

OSUsers_get_effective_username(c, db, p) ==
    LET uid == OSUsers_get_effective_uid(c, p)
        user == OSUsers_get_user_by_uid(uid.cache, db, Unwrap(uid.ret))
    IN  Then(uid, user, MapName(user.ret))

\* The free functions of src/lib.rs: each runs the method on a cache that is
\* created for the call and dropped after it.
lib_free_get_user_by_name(db, username) ==
    LET out == lib_get_user_by_name(empty_cache, db, username)
    IN  [ret |-> out.ret, trace |-> out.trace]

lib_free_get_group_by_name(db, group_name) ==
    LET out == lib_get_group_by_name(empty_cache, db, group_name)
    IN  [ret |-> out.ret, trace |-> out.trace]

get_user_by_name(snap, db, username) ==
    IF snap = "lib" THEN lib_free_get_user_by_name(db, username)
    ELSE base_get_user_by_name(db, username)

get_group_by_name(snap, db, group_name) ==
    IF snap = "lib" THEN lib_free_get_group_by_name(db, group_name)
    ELSE base_get_group_by_name(db, group_name)

\* ------------------------------------------------ switching user and group
\* The kernel grants or refuses a change of id.  `e` is its verdict on a call
\* that needs privilege: 0 when the process may make any change, else the
\* errno the call fails with.  A process may always set an effective id to
\* its real or its effective id.

\* EPERM and EINVAL.
Errnos == {1, 22}

Verdicts == {0} \cup Errnos

\* The verdicts the call after one with verdict `e` can meet: the functions
\* below stop at the first call that fails, so after a refusal no further
\* verdict is consulted.
After(e) == IF e = 0 THEN Verdicts ELSE {0}

\* The argument -1 of setreuid / setregid: leave that id as it is.
KEEP == -1

SysOutcome(p, errno) == [proc |-> p, errno |-> errno]

libc_setuid(p, uid, e) ==
    IF e = 0 THEN SysOutcome([p EXCEPT !.uid = uid, !.euid = uid], 0)
    ELSE IF uid = p.uid THEN SysOutcome([p EXCEPT !.euid = uid], 0)
    ELSE SysOutcome(p, e)

libc_setgid(p, gid, e) ==
    IF e = 0 THEN SysOutcome([p EXCEPT !.gid = gid, !.egid = gid], 0)
    ELSE IF gid = p.gid THEN SysOutcome([p EXCEPT !.egid = gid], 0)
    ELSE SysOutcome(p, e)

libc_seteuid(p, uid, e) ==
    IF e = 0 \/ uid \in {p.uid, p.euid}
    THEN SysOutcome([p EXCEPT !.euid = uid], 0)
    ELSE SysOutcome(p, e)

libc_setegid(p, gid, e) ==
    IF e = 0 \/ gid \in {p.gid, p.egid}
    THEN SysOutcome([p EXCEPT !.egid = gid], 0)
    ELSE SysOutcome(p, e)

libc_setreuid(p, ruid, euid, e) ==
    IF e = 0 \/ ({ruid, euid} \ {KEEP}) \subseteq {p.uid, p.euid}
    THEN SysOutcome([p EXCEPT !.uid = IF ruid = KEEP THEN @ ELSE ruid,
                              !.euid = IF euid = KEEP THEN @ ELSE euid], 0)
    ELSE SysOutcome(p, e)

libc_setregid(p, rgid, egid, e) ==
    IF e = 0 \/ ({rgid, egid} \ {KEEP}) \subseteq {p.gid, p.egid}
    THEN SysOutcome([p EXCEPT !.gid = IF rgid = KEEP THEN @ ELSE rgid,
                              !.egid = IF egid = KEEP THEN @ ELSE egid], 0)
    ELSE SysOutcome(p, e)

\* io::Result<()>
Ok == [ok |-> TRUE, errno |-> 0]

Err(errno) == [ok |-> FALSE, errno |-> errno]

\* What a set_* function hands back: the process afterwards, the Result, the
\* libc calls made, and whether it panicked instead of returning.
SetOutcome(p, res, trace, panic) ==
    [proc |-> p, ret |-> res, trace |-> trace, panicked |-> panic]

\* The match on the return code: 0 => Ok(()), -1 => Err(last_os_error()).
\* On Redox the Err arm of the match is unreachable!(), a panic.
MatchReturn(snap, sys, call) ==
    IF sys.errno = 0 THEN SetOutcome(sys.proc, Ok, <<call>>, FALSE)
    ELSE IF snap = "redox" THEN SetOutcome(sys.proc, Err(sys.errno), <<call>>, TRUE)
    ELSE SetOutcome(sys.proc, Err(sys.errno), <<call>>, FALSE)

\* A trace names a call by the id it sets: on Redox the four single-id
\* functions go through setreuid / setregid with -1 for the id left alone.
set_current_uid(snap, p, uid, e) ==
    LET sys == IF snap = "redox" THEN libc_setreuid(p, uid, KEEP, e)
               ELSE libc_setuid(p, uid, e)
    IN  MatchReturn(snap, sys, Sys("setuid", uid, <<>>, sys.errno))

set_current_gid(snap, p, gid, e) ==
    LET sys == IF snap = "redox" THEN libc_setregid(p, gid, KEEP, e)
               ELSE libc_setgid(p, gid, e)
    IN  MatchReturn(snap, sys, Sys("setgid", gid, <<>>, sys.errno))

set_effective_uid(snap, p, uid, e) ==
    LET sys == IF snap = "redox" THEN libc_setreuid(p, KEEP, uid, e)
               ELSE libc_seteuid(p, uid, e)
    IN  MatchReturn(snap, sys, Sys("seteuid", uid, <<>>, sys.errno))

set_effective_gid(snap, p, gid, e) ==
    LET sys == IF snap = "redox" THEN libc_setregid(p, KEEP, gid, e)
               ELSE libc_setegid(p, gid, e)
    IN  MatchReturn(snap, sys, Sys("setegid", gid, <<>>, sys.errno))

set_both_uid(snap, p, ruid, euid, e) ==
    LET sys == libc_setreuid(p, ruid, euid, e)
    IN  MatchReturn(snap, sys, Sys("setreuid", ruid, <<euid>>, sys.errno))

set_both_gid(snap, p, rgid, egid, e) ==
    LET sys == libc_setregid(p, rgid, egid, e)
    IN  MatchReturn(snap, sys, Sys("setregid", rgid, <<egid>>, sys.errno))

\* An unwrap that lets an Err pass.
UnwrapResult_ignores(out) == out

\* Result::unwrap: panics on an Err.
UnwrapResult(out) == [out EXCEPT !.panicked = @ \/ ~out.ret.ok]

\* A drop that restores the uid and leaves the gid as it is.
SwitchUserGuard_drop_uid_only(snap, p, guard, e1, e2) ==
    UnwrapResult(set_effective_uid(snap, p, guard.uid, e1))

\* Drop for SwitchUserGuard: restores the uid, then the gid; a failure of
\* either panics, and a panic in the first leaves the second undone.
\* A disposal that puts back the gid before the uid.
SwitchUserGuard_drop_gid_first(snap, p, guard, e1, e2) ==
    LET first == UnwrapResult(set_effective_gid(snap, p, guard.gid, e1))
        second == UnwrapResult(set_effective_uid(snap, first.proc, guard.uid, e2))
    IN  IF first.panicked THEN first
        ELSE [second EXCEPT !.trace = first.trace \o @]

SwitchUserGuard_drop(snap, p, guard, e1, e2) ==
    LET first == UnwrapResult(set_effective_uid(snap, p, guard.uid, e1))
        second == UnwrapResult(set_effective_gid(snap, first.proc, guard.gid, e2))
    IN  IF first.panicked THEN first
        ELSE [second EXCEPT !.trace = first.trace \o @]

\* One `try!(set_effective_*(id))` line of switch_user_group.
SetStep(which, id, e) == [which |-> which, id |-> id, e |-> e]

RunStep(snap, p, step) ==
    IF step.which = "gid" THEN set_effective_gid(snap, p, step.id, step.e)
    ELSE set_effective_uid(snap, p, step.id, step.e)

\* A switch_user_group whose error path returns without disposing the guard.
SwitchSteps_leaks(snap, p, guard, steps, e3, e4) ==
    LET before == << Call("geteuid", 0, <<>>), Call("getegid", 0, <<>>) >>
        first == RunStep(snap, p, steps[1])
        second == RunStep(snap, first.proc, steps[2])
        failed == IF first.panicked \/ ~first.ret.ok THEN first
                  ELSE [second EXCEPT !.trace = first.trace \o @]
    IN  IF failed.panicked \/ ~failed.ret.ok
        THEN [proc |-> failed.proc, ret |-> failed.ret,
              trace |-> before \o failed.trace,
              panicked |-> failed.panicked, guard |-> None]
        ELSE [proc |-> failed.proc, ret |-> Ok,
              trace |-> before \o failed.trace,
              panicked |-> FALSE, guard |-> Some(guard)]

\* The body of switch_user_group once current_state is captured: the two
\* steps in order; the first failure is returned (try!), and current_state,
\* still owned by the function, is dropped on that path.
SwitchSteps(snap, p, guard, steps, e3, e4) ==
    LET before == << Call("geteuid", 0, <<>>), Call("getegid", 0, <<>>) >>
        first == RunStep(snap, p, steps[1])
        second == RunStep(snap, first.proc, steps[2])
        failed == IF first.panicked \/ ~first.ret.ok THEN first
                  ELSE [second EXCEPT !.trace = first.trace \o @]
        dropped == SwitchUserGuard_drop(snap, failed.proc, guard, e3, e4)
    IN  IF failed.panicked \/ ~failed.ret.ok
        THEN [proc |-> dropped.proc, ret |-> failed.ret,
              trace |-> before \o failed.trace \o dropped.trace,
              panicked |-> failed.panicked \/ dropped.panicked, guard |-> None]
        ELSE [proc |-> failed.proc, ret |-> Ok,
              trace |-> before \o failed.trace,
              panicked |-> FALSE, guard |-> Some(guard)]

\* src/switch.rs and src/switch/redox.rs: the gid first, then the uid.
unix_switch_user_group(snap, p, uid, gid, e1, e2, e3, e4) ==
    LET current_state == [uid |-> libc_geteuid(p), gid |-> libc_getegid(p)]
    IN  SwitchSteps(snap, p, current_state,
                    << SetStep("gid", gid, e1), SetStep("uid", uid, e2) >>, e3, e4)

\* src/lib.rs: the uid first, then the gid.
lib_switch_user_group(snap, p, uid, gid, e1, e2, e3, e4) ==
    LET current_state == [uid |-> libc_geteuid(p), gid |-> libc_getegid(p)]
    IN  SwitchSteps(snap, p, current_state,
                    << SetStep("uid", uid, e1), SetStep("gid", gid, e2) >>, e3, e4)

\* A switch_user_group whose guard holds the ids it switched to.
switch_user_group_holds_target(snap, p, uid, gid, e1, e2, e3, e4) ==
    SwitchSteps(snap, p, [uid |-> uid, gid |-> gid],
                << SetStep("gid", gid, e1), SetStep("uid", uid, e2) >>, e3, e4)

switch_user_group(snap, p, uid, gid, e1, e2, e3, e4) ==
    IF snap = "lib" THEN lib_switch_user_group(snap, p, uid, gid, e1, e2, e3, e4)
    ELSE unix_switch_user_group(snap, p, uid, gid, e1, e2, e3, e4)

\* ------------------------------------------------------- iterating all users
\* setpwent / getpwent / endpwent walk the passwd database with one cursor
\* that belongs to the process.  getpwent on a closed database opens it at
\* the first record.

setpwent(cur) == [open |-> TRUE, pos |-> 0]

endpwent(cur) == [open |-> FALSE, pos |-> 0]

getpwent(cur, db) ==
    LET at == IF cur.open THEN cur.pos ELSE 0
    IN  IF at < Len(db)
        THEN [cursor |-> [open |-> TRUE, pos |-> at + 1], ptr |-> Some(db[at + 1])]
        ELSE [cursor |-> [open |-> TRUE, pos |-> at], ptr |-> None]

IterOutcome(cur, res, trace) == [cursor |-> cur, ret |-> res, trace |-> trace]

\* An AllUsers::new that rewinds only a database nobody has open.
AllUsers_new_if_closed(snap, cur) ==
    IF snap = "android" \/ cur.open THEN IterOutcome(cur, None, <<>>)
    ELSE IterOutcome(setpwent(cur), None, << Call("setpwent", 0, <<>>) >>)

\* AllUsers::new / all_users: the Android build makes no libc call.
AllUsers_new(snap, cur) ==
    IF snap = "android" THEN IterOutcome(cur, None, <<>>)
    ELSE IterOutcome(setpwent(cur), None, << Call("setpwent", 0, <<>>) >>)

\* Iterator::next: on Android always None.
AllUsers_next(snap, cur, db) ==
    IF snap = "android" THEN IterOutcome(cur, None, <<>>)
    ELSE LET sys == getpwent(cur, db)
         IN  IterOutcome(sys.cursor, passwd_to_user(sys.ptr),
                         << Call("getpwent", 0, <<>>) >>)

\* Drop for AllUsers.
AllUsers_drop(snap, cur, db) ==
    IF snap = "android" THEN IterOutcome(cur, None, <<>>)
    ELSE IterOutcome(endpwent(cur), None, << Call("endpwent", 0, <<>>) >>)

\* ------------------------------------------------------------------ the mock
\* MockUsers: a table of users by uid, a table of groups by gid and one uid.
\* Its accessors return the value; where HashMap::values().find() may meet
\* several matches in an order the HashMap chooses, they return the set of
\* values the call can produce.

with_current_uid(current_uid) ==
    [users |-> EmptyMap, groups |-> EmptyMap, uid |-> current_uid]

\* An add_user that keeps a user the table already has under that uid.
MockUsers_add_user_keeps_first(m, user) ==
    IF user.uid \in DOMAIN m.users THEN m
    ELSE [m EXCEPT !.users = Put(@, user.uid, user)]

MockUsers_add_user(m, user) == [m EXCEPT !.users = Put(@, user.uid, user)]

MockUsers_add_group(m, group) == [m EXCEPT !.groups = Put(@, group.gid, group)]

\* HashMap::get(&k).cloned()
MapGet(m, k) == IF k \in DOMAIN m THEN Some(m[k]) ELSE None

\* HashMap::values().find(|v| v.name == name).cloned(): any of the matches.
FindByName(m, name) ==
    LET matches == { m[k] : k \in { x \in DOMAIN m : m[x].name = name } }
    IN  IF matches = {} THEN { None } ELSE { Some(v) : v \in matches }

MockUsers_get_user_by_uid(m, uid) == MapGet(m.users, uid)

MockUsers_get_user_by_name(m, username) == FindByName(m.users, username)

MockUsers_get_group_by_gid(m, gid) == MapGet(m.groups, gid)

MockUsers_get_group_by_name(m, group_name) == FindByName(m.groups, group_name)

MockUsers_get_current_uid(m) == m.uid

MockUsers_get_effective_uid(m) == m.uid

\* A get_current_username that takes the name of whichever user comes first.
MockUsers_get_current_username_of_first(m) ==
    IF DOMAIN m.users = {} THEN None
    ELSE MapName(MapGet(m.users, CHOOSE k \in DOMAIN m.users :
                                     \A x \in DOMAIN m.users : k <= x))

MockUsers_get_current_username(m) == MapName(MapGet(m.users, m.uid))

MockUsers_get_effective_username(m) == MapName(MapGet(m.users, m.uid))

MockUsers_get_current_gid(m) == m.uid

MockUsers_get_effective_gid(m) == m.uid

\* A get_current_groupname that names the primary group of the current user.
MockUsers_get_current_groupname_of_primary(m) ==
    IF m.uid \in DOMAIN m.users
    THEN MapName(MapGet(m.groups, m.users[m.uid].primary_group))
    ELSE None

MockUsers_get_current_groupname(m) == MapName(MapGet(m.groups, m.uid))

MockUsers_get_effective_groupname(m) == MapName(MapGet(m.groups, m.uid))

\* ------------------------------------------------------------------- state

VARIABLES
    snapshot,   \* which generation of the source runs: "lib", "os" for the
                \* cache; "lib", "unix", "redox" for the switch functions
    passwd,     \* the system's user database, in file order
    groupdb,    \* the system's group database, in file order
    proc,       \* the process's real and effective uid and gid
    cache,      \* one OSUsers instance
    calls,      \* how often that instance has made each libc call
    op,         \* the last operation called, with its argument
    ret,        \* what it returned (an Option; a plain id is wrapped in Some)
    trace,      \* the libc calls it made, in order
    panicked,   \* whether it panicked instead of returning
    seen,       \* history: every passwd record the database has held
    hist,       \* history: the (name, uid) pairs the cache has resolved
    guards,     \* the SwitchUserGuards the program holds, oldest first
    cursor,     \* libc's position in the passwd database, one for the process
    iters,      \* the AllUsers iterators created, with what each has yielded
    mock,       \* one MockUsers instance
    mocklog,    \* history: the uid it was created with and what was added
    threads,    \* the threads that call the raw lookups, each with its position
    buffer,     \* libc's static passwd storage, one for the process
    nest        \* history: the effective ids when the oldest guard was made,
                \* whether a guard was made inside another since, and whether
                \* every disposal since was of the newest guard

NoOp == Call("", 0, <<>>)

Tids == {1, 2}

\* A thread that has called nothing yet and holds no record.
Idle == [pc |-> "idle", op |-> NoOp, pointer |-> "null", passwd |-> None,
         ret |-> None, held |-> <<>>]

vars == <<snapshot, passwd, groupdb, proc, cache, calls, op, ret, trace,
          panicked, seen, hist, guards, cursor, iters, mock, mocklog,
          threads, buffer, nest>>

Procs == [uid : Uids, euid : Uids, gid : Gids, egid : Gids]

Count(cs, call) == IF call \in DOMAIN cs THEN cs[call] ELSE 0

\* Adds the calls of a trace to the counters.
RECURSIVE Bump(_, _)
Bump(cs, t) ==
    IF t = <<>> THEN cs
    ELSE LET n == Count(cs, Head(t))
         IN  Bump(Put(cs, Head(t), IF n < MaxCalls THEN n + 1 ELSE n), Tail(t))

\* The elements of a sequence.
Range(t) == { t[i] : i \in 1..Len(t) }

\* A method of the cache was called as `o` and came back with `out`.
Returned(o, out) ==
    /\ ~panicked
    /\ cache' = out.cache
    /\ ret' = out.ret
    /\ trace' = out.trace
    /\ panicked' = out.panicked
    /\ calls' = Bump(calls, out.trace)
    /\ op' = o

\* A function that takes no cache was called as `o` and came back with `out`.
ReturnedFree(o, out) ==
    /\ ~panicked
    /\ ret' = out.ret
    /\ trace' = out.trace
    /\ panicked' = FALSE
    /\ op' = o
    /\ UNCHANGED <<cache, calls>>

InitCache ==
    /\ cache = empty_cache
    /\ calls = EmptyMap
    /\ op = NoOp
    /\ ret = None
    /\ trace = <<>>
    /\ panicked = FALSE
    /\ hist = [byname |-> {}, byuid |-> {}]
    /\ guards = <<>>
    /\ cursor = [open |-> FALSE, pos |-> 0]
    /\ iters = <<>>
    /\ mock = with_current_uid(proc.uid)
    /\ mocklog = [uid |-> mock.uid, users |-> <<>>, groups |-> <<>>]
    /\ threads = [t \in Tids |-> Idle]
    /\ buffer = None
    /\ nest = [origin |-> None, nested |-> FALSE, lifo |-> TRUE]

\* The four lookups, users in full and groups on a smaller table.
Init ==
    /\ snapshot \in {"lib", "os"}
    /\ passwd \in PasswdDbs
    /\ seen = Range(passwd)
    /\ groupdb \in GroupDbs
    /\ proc = [uid |-> 1, euid |-> 2, gid |-> 1, egid |-> 2]
    /\ InitCache

\* ----------------------------------------------------------------- actions

env == <<snapshot, passwd, groupdb, proc, seen, guards, cursor, iters, mock,
         mocklog, threads, buffer, nest>>

GetUserByUid(uid) ==
    LET out == OSUsers_get_user_by_uid(cache, passwd, uid)
    IN  /\ Returned(Call("get_user_by_uid", uid, <<>>), out)
        /\ hist' = [hist EXCEPT !.byuid = @ \cup { <<uid, u.name>> : u \in out.ret }]
        /\ UNCHANGED env

GetUserByName(username) ==
    LET out == OSUsers_get_user_by_name(snapshot, cache, passwd, username)
    IN  /\ Returned(Call("get_user_by_name", 0, username), out)
        /\ hist' = [hist EXCEPT !.byname = @ \cup { <<username, u.uid>> : u \in out.ret }]
        /\ UNCHANGED env

GetGroupByGid(gid) ==
    /\ Returned(Call("get_group_by_gid", gid, <<>>),
                OSUsers_get_group_by_gid(cache, groupdb, gid))
    /\ UNCHANGED <<env, hist>>

GetGroupByName(group_name) ==
    /\ Returned(Call("get_group_by_name", 0, group_name),
                OSUsers_get_group_by_name(snapshot, cache, groupdb, group_name))
    /\ UNCHANGED <<env, hist>>

UncachedGetUserByName(username) ==
    /\ ReturnedFree(Call("base::get_user_by_name", 0, username),
                    get_user_by_name(snapshot, passwd, username))
    /\ UNCHANGED <<env, hist>>

UncachedGetGroupByGid(gid) ==
    /\ ReturnedFree(Call("base::get_group_by_gid", gid, <<>>),
                    base_get_group_by_gid(groupdb, gid))
    /\ UNCHANGED <<env, hist>>

UncachedGetGroupByName(group_name) ==
    /\ ReturnedFree(Call("base::get_group_by_name", 0, group_name),
                    get_group_by_name(snapshot, groupdb, group_name))
    /\ UNCHANGED <<env, hist>>

GetCurrentUid ==
    /\ Returned(Call("get_current_uid", 0, <<>>),
                OSUsers_get_current_uid(cache, proc))
    /\ UNCHANGED <<env, hist>>

GetCurrentGid ==
    /\ Returned(Call("get_current_gid", 0, <<>>),
                OSUsers_get_current_gid(cache, proc))
    /\ UNCHANGED <<env, hist>>

GetEffectiveUid ==
    /\ Returned(Call("get_effective_uid", 0, <<>>),
                OSUsers_get_effective_uid(cache, proc))
    /\ UNCHANGED <<env, hist>>

GetEffectiveGid ==
    /\ Returned(Call("get_effective_gid", 0, <<>>),
                OSUsers_get_effective_gid(cache, proc))
    /\ UNCHANGED <<env, hist>>

GetCurrentUsername ==
    /\ Returned(Call("get_current_username", 0, <<>>),
                OSUsers_get_current_username(cache, passwd, proc))
    /\ UNCHANGED <<env, hist>>

GetCurrentGroupname ==
    /\ Returned(Call("get_current_groupname", 0, <<>>),
                OSUsers_get_current_groupname(cache, groupdb, proc))
    /\ UNCHANGED <<env, hist>>

GetEffectiveUsername ==
    /\ Returned(Call("get_effective_username", 0, <<>>),
                OSUsers_get_effective_username(cache, passwd, proc))
    /\ UNCHANGED <<env, hist>>

GetEffectiveGroupname ==
    /\ Returned(Call("get_effective_groupname", 0, <<>>),
                OSUsers_get_effective_groupname(cache, groupdb, proc))
    /\ UNCHANGED <<env, hist>>

\* Somebody edits /etc/passwd while the program runs.
PasswdChanges ==
    /\ passwd' \in PasswdDbs \ {passwd}
    /\ seen' = seen \cup Range(passwd')
    /\ UNCHANGED <<snapshot, groupdb, proc, cache, calls, op, ret, trace,
                   panicked, hist, guards, cursor, iters, mock, mocklog,
                   threads, buffer, nest>>

\* A function of the switch module was called as `o` and came back with `out`.
Switched(o, out) ==
    /\ ~panicked
    /\ proc' = out.proc
    /\ ret' = out.ret
    /\ trace' = out.trace
    /\ panicked' = out.panicked
    /\ op' = o
    /\ UNCHANGED <<snapshot, passwd, groupdb, seen, cache, calls, hist,
                   cursor, iters, mock, mocklog, threads, buffer>>

SetCurrentUid(uid) ==
    \E e \in Verdicts :
        /\ Switched(Call("set_current_uid", uid, <<>>),
                    set_current_uid(snapshot, proc, uid, e))
        /\ UNCHANGED <<guards, nest>>

SetCurrentGid(gid) ==
    \E e \in Verdicts :
        /\ Switched(Call("set_current_gid", gid, <<>>),
                    set_current_gid(snapshot, proc, gid, e))
        /\ UNCHANGED <<guards, nest>>

SetEffectiveUid(uid) ==
    \E e \in Verdicts :
        /\ Switched(Call("set_effective_uid", uid, <<>>),
                    set_effective_uid(snapshot, proc, uid, e))
        /\ UNCHANGED <<guards, nest>>

SetEffectiveGid(gid) ==
    \E e \in Verdicts :
        /\ Switched(Call("set_effective_gid", gid, <<>>),
                    set_effective_gid(snapshot, proc, gid, e))
        /\ UNCHANGED <<guards, nest>>

SetBothUid(ruid, euid) ==
    \E e \in Verdicts :
        /\ Switched(Call("set_both_uid", ruid, <<euid>>),
                    set_both_uid(snapshot, proc, ruid, euid, e))
        /\ UNCHANGED <<guards, nest>>

SetBothGid(rgid, egid) ==
    \E e \in Verdicts :
        /\ Switched(Call("set_both_gid", rgid, <<egid>>),
                    set_both_gid(snapshot, proc, rgid, egid, e))
        /\ UNCHANGED <<guards, nest>>

\* let guard = switch_user_group(uid, gid): the caller keeps the guard of a
\* successful switch.
SwitchUserGroupStep(uid, gid) ==
    /\ Len(guards) < MaxGuards
    /\ \E e1 \in Verdicts : \E e2 \in After(e1) :
       \E e3 \in IF e1 = 0 /\ e2 = 0 THEN {0} ELSE Verdicts : \E e4 \in After(e3) :
        LET out == switch_user_group(snapshot, proc, uid, gid, e1, e2, e3, e4)
        IN  /\ Switched(Call("switch_user_group", uid, <<gid>>), out)
            /\ guards' = IF out.guard = None THEN guards
                          ELSE Append(guards, Unwrap(out.guard))

SwitchUserGroup(uid, gid) == SwitchUserGroupStep(uid, gid) /\ UNCHANGED nest

\* The i-th of the guards held goes out of scope or is passed to drop().
DropGuardStep(i) ==
    /\ i \in 1..Len(guards)
    /\ \E e1 \in Verdicts : \E e2 \in After(e1) :
        /\ Switched(Call("drop", guards[i].uid, <<guards[i].gid>>),
                    SwitchUserGuard_drop(snapshot, proc, guards[i], e1, e2))
        /\ guards' = SubSeq(guards, 1, i - 1) \o SubSeq(guards, i + 1, Len(guards))

DropGuard(i) == DropGuardStep(i) /\ UNCHANGED nest

\* How often a trace makes the libc call fn.
CallsOf(t, fn) == Cardinality({ i \in 1..Len(t) : t[i].fn = fn })

\* The iterators that are live.
Live(its) == { i \in 1..Len(its) : its[i].live }

\* A function of an iterator was called as `o` and came back with `out`.
Iterated(o, out) ==
    /\ ~panicked
    /\ cursor' = out.cursor
    /\ ret' = out.ret
    /\ trace' = out.trace
    /\ op' = o
    /\ UNCHANGED <<snapshot, passwd, groupdb, proc, seen, guards, cache, calls,
                   hist, panicked, mock, mocklog, threads, buffer, nest>>

\* let iter = unsafe { AllUsers::new() }.  Each iterator carries its history:
\* what next() returned, whether it ever shared the process with another
\* live iterator, and the setpwent and endpwent calls made on its behalf.
AllUsersNew ==
    /\ Len(iters) < MaxIters
    /\ LET out == AllUsers_new(snapshot, cursor)
           others == [ i \in 1..Len(iters) |->
                        IF iters[i].live THEN [iters[i] EXCEPT !.alone = FALSE]
                        ELSE iters[i] ]
       IN  /\ Iterated(Call("AllUsers::new", Len(iters) + 1, <<>>), out)
           /\ iters' = Append(others,
                              [out |-> <<>>, live |-> TRUE,
                               alone |-> Live(iters) = {},
                               opens |-> CallsOf(out.trace, "setpwent"),
                               closes |-> 0])

AllUsersNext(i) ==
    /\ i \in Live(iters)
    /\ Len(iters[i].out) < MaxAdvance
    /\ LET out == AllUsers_next(snapshot, cursor, passwd)
       IN  /\ Iterated(Call("AllUsers::next", i, <<>>), out)
           /\ iters' = [iters EXCEPT ![i].out = Append(@, out.ret),
                                     ![i].opens = @ + CallsOf(out.trace, "setpwent"),
                                     ![i].closes = @ + CallsOf(out.trace, "endpwent")]

AllUsersDrop(i) ==
    /\ i \in Live(iters)
    /\ LET out == AllUsers_drop(snapshot, cursor, passwd)
       IN  /\ Iterated(Call("AllUsers::drop", i, <<>>), out)
           /\ iters' = [iters EXCEPT ![i].live = FALSE,
                                     ![i].opens = @ + CallsOf(out.trace, "setpwent"),
                                     ![i].closes = @ + CallsOf(out.trace, "endpwent")]

\* The users and groups a test may add to a mock.
MockUserRecs ==
    [uid : Uids, name : {<<97>>, <<98>>}, primary_group : Gids]

MockGroupRecs ==
    [gid : Gids, name : {<<97>>, <<98>>}, members : {<<>>}]

\* A method of the mock was called as `o` and returned `res`.
Mocked(o, res) ==
    /\ ~panicked
    /\ ret' = res
    /\ trace' = <<>>
    /\ op' = o
    /\ UNCHANGED <<snapshot, passwd, groupdb, proc, seen, guards, cache, calls,
                   hist, panicked, cursor, iters, threads, buffer, nest>>

MockAddUser(user) ==
    /\ Len(mocklog.users) + Len(mocklog.groups) < MaxAdds
    /\ Mocked(Call("MockUsers::add_user", user.uid, user.name),
              MapGet(mock.users, user.uid))
    /\ mock' = MockUsers_add_user(mock, user)
    /\ mocklog' = [mocklog EXCEPT !.users = Append(@, user)]

MockAddGroup(group) ==
    /\ Len(mocklog.users) + Len(mocklog.groups) < MaxAdds
    /\ Mocked(Call("MockUsers::add_group", group.gid, group.name),
              MapGet(mock.groups, group.gid))
    /\ mock' = MockUsers_add_group(mock, group)
    /\ mocklog' = [mocklog EXCEPT !.groups = Append(@, group)]

MockGetUserByUid(uid) ==
    /\ Mocked(Call("MockUsers::get_user_by_uid", uid, <<>>),
              MockUsers_get_user_by_uid(mock, uid))
    /\ UNCHANGED <<mock, mocklog>>

MockGetUserByName(username) ==
    /\ \E res \in MockUsers_get_user_by_name(mock, username) :
          Mocked(Call("MockUsers::get_user_by_name", 0, username), res)
    /\ UNCHANGED <<mock, mocklog>>

MockGetGroupByGid(gid) ==
    /\ Mocked(Call("MockUsers::get_group_by_gid", gid, <<>>),
              MockUsers_get_group_by_gid(mock, gid))
    /\ UNCHANGED <<mock, mocklog>>

MockGetGroupByName(group_name) ==
    /\ \E res \in MockUsers_get_group_by_name(mock, group_name) :
          Mocked(Call("MockUsers::get_group_by_name", 0, group_name), res)
    /\ UNCHANGED <<mock, mocklog>>

MockGetCurrentUid ==
    /\ Mocked(Call("MockUsers::get_current_uid", 0, <<>>),
              Some(MockUsers_get_current_uid(mock)))
    /\ UNCHANGED <<mock, mocklog>>

MockGetEffectiveUid ==
    /\ Mocked(Call("MockUsers::get_effective_uid", 0, <<>>),
              Some(MockUsers_get_effective_uid(mock)))
    /\ UNCHANGED <<mock, mocklog>>

MockGetCurrentUsername ==
    /\ Mocked(Call("MockUsers::get_current_username", 0, <<>>),
              MockUsers_get_current_username(mock))
    /\ UNCHANGED <<mock, mocklog>>

MockGetEffectiveUsername ==
    /\ Mocked(Call("MockUsers::get_effective_username", 0, <<>>),
              MockUsers_get_effective_username(mock))
    /\ UNCHANGED <<mock, mocklog>>

MockGetCurrentGid ==
    /\ Mocked(Call("MockUsers::get_current_gid", 0, <<>>),
              Some(MockUsers_get_current_gid(mock)))
    /\ UNCHANGED <<mock, mocklog>>

MockGetEffectiveGid ==
    /\ Mocked(Call("MockUsers::get_effective_gid", 0, <<>>),
              Some(MockUsers_get_effective_gid(mock)))
    /\ UNCHANGED <<mock, mocklog>>

MockGetCurrentGroupname ==
    /\ Mocked(Call("MockUsers::get_current_groupname", 0, <<>>),
              MockUsers_get_current_groupname(mock))
    /\ UNCHANGED <<mock, mocklog>>

MockGetEffectiveGroupname ==
    /\ Mocked(Call("MockUsers::get_effective_groupname", 0, <<>>),
              MockUsers_get_effective_groupname(mock))
    /\ UNCHANGED <<mock, mocklog>>

\* Group names a caller may ask for: "a" and "a\0".
GroupNames == { <<97>>, <<97, NUL>> }

Next ==
    \/ \E uid \in Uids : GetUserByUid(uid)
    \/ \E username \in Names : GetUserByName(username)
    \/ \E gid \in Gids : GetGroupByGid(gid)
    \/ \E group_name \in GroupNames : GetGroupByName(group_name)
    \/ \E username \in Names : UncachedGetUserByName(username)
    \/ \E group_name \in GroupNames : UncachedGetGroupByName(group_name)

Spec == Init /\ [][Next]_vars

\* The user lookups against a database that changes under the cache.
NextDb ==
    \/ \E uid \in Uids : GetUserByUid(uid)
    \/ \E username \in Names : GetUserByName(username)
    \/ PasswdChanges

SpecDb == Init /\ [][NextDb]_vars

\* The accessors of the process's own ids and names, with the lookups by id
\* they are built from, for every identity the process can start with.
InitNames ==
    /\ snapshot = "os"
    /\ passwd \in PasswdDbs
    /\ seen = Range(passwd)
    /\ groupdb \in GroupDbs
    /\ proc \in { p \in Procs : p.gid = p.uid /\ p.egid = p.euid }
    /\ InitCache

NextNames ==
    \/ \E uid \in Uids : GetUserByUid(uid)
    \/ \E gid \in Gids : GetGroupByGid(gid)
    \/ GetCurrentUid
    \/ GetCurrentGid
    \/ GetEffectiveUid
    \/ GetEffectiveGid
    \/ GetCurrentUsername
    \/ GetCurrentGroupname
    \/ GetEffectiveUsername
    \/ GetEffectiveGroupname

SpecNames == InitNames /\ [][NextNames]_vars

\* The functions of the switch module in their three generations, from every
\* identity the process can start with.
InitSwitch ==
    /\ snapshot \in {"lib", "unix", "redox"}
    /\ passwd = <<>>
    /\ seen = {}
    /\ groupdb = <<>>
    /\ proc \in Procs
    /\ InitCache

NextSwitch ==
    \/ \E uid \in Uids, gid \in Gids : SwitchUserGroup(uid, gid)
    \/ \E i \in 1..MaxGuards : DropGuard(i)

SpecSwitch == InitSwitch /\ [][NextSwitch]_vars

\* Guards made one inside the other, with the history of the nesting: the
\* switch and the disposal above, from the identities of one real user.
NestedSwitch(uid, gid) ==
    /\ SwitchUserGroupStep(uid, gid)
    /\ nest' = IF Len(guards') = Len(guards) THEN nest
                ELSE IF guards = <<>>
                THEN [origin |-> Some([uid |-> proc.euid, gid |-> proc.egid]),
                      nested |-> FALSE, lifo |-> TRUE]
                ELSE [nest EXCEPT !.nested = TRUE]

NestedDrop(i) ==
    /\ DropGuardStep(i)
    /\ nest' = [nest EXCEPT !.lifo = @ /\ i = Len(guards)]

InitNest ==
    /\ snapshot \in {"lib", "unix", "redox"}
    /\ passwd = <<>>
    /\ seen = {}
    /\ groupdb = <<>>
    /\ proc \in { p \in Procs : p.uid = 1 /\ p.gid = 1 }
    /\ InitCache

NextNest ==
    \/ \E uid \in Uids, gid \in Gids : NestedSwitch(uid, gid)
    \/ \E i \in 1..MaxGuards : NestedDrop(i)

SpecNest == InitNest /\ [][NextNest]_vars

\* The six functions that set an id, in the same three generations.
NextSet ==
    \/ \E uid \in Uids : SetCurrentUid(uid)
    \/ \E gid \in Gids : SetCurrentGid(gid)
    \/ \E uid \in Uids : SetEffectiveUid(uid)
    \/ \E gid \in Gids : SetEffectiveGid(gid)
    \/ \E ruid, euid \in Uids \cup {KEEP} : SetBothUid(ruid, euid)
    \/ \E rgid, egid \in Gids \cup {KEEP} : SetBothGid(rgid, egid)

SpecSet == InitSwitch /\ [][NextSet]_vars

\* The memoized reads of the process's ids on one cache while the process
\* changes its ids under it.
InitIds ==
    /\ snapshot = "unix"
    /\ passwd = <<>>
    /\ seen = {}
    /\ groupdb = <<>>
    /\ proc \in Procs
    /\ InitCache

NextIds ==
    \/ GetCurrentUid
    \/ GetCurrentGid
    \/ GetEffectiveUid
    \/ GetEffectiveGid
    \/ \E uid \in Uids : SetCurrentUid(uid)
    \/ \E gid \in Gids : SetCurrentGid(gid)
    \/ \E uid \in Uids : SetEffectiveUid(uid)
    \/ \E gid \in Gids : SetEffectiveGid(gid)

SpecIds == InitIds /\ [][NextIds]_vars

\* The all-users iterator as built for Unix and for Android, over every
\* passwd database of up to MaxUsers records.
InitIter ==
    /\ snapshot \in {"unix", "android"}
    /\ passwd \in { s \in SeqsUpTo(PasswdRecs, MaxUsers) : NoRepeat(s) }
    /\ seen = Range(passwd)
    /\ groupdb = <<>>
    /\ proc = [uid |-> 1, euid |-> 1, gid |-> 1, egid |-> 1]
    /\ InitCache

NextIter ==
    \/ AllUsersNew
    \/ \E i \in 1..MaxIters : AllUsersNext(i)
    \/ \E i \in 1..MaxIters : AllUsersDrop(i)

SpecIter == InitIter /\ [][NextIter]_vars

\* A MockUsers created with either uid as its current uid, filled by a test
\* and then asked.
InitMock ==
    /\ snapshot = "os"
    /\ passwd = <<>>
    /\ seen = {}
    /\ groupdb = <<>>
    /\ proc \in { [uid |-> c, euid |-> c, gid |-> c, egid |-> c] : c \in Uids }
    /\ InitCache

NextMock ==
    \/ \E user \in MockUserRecs : MockAddUser(user)
    \/ \E group \in MockGroupRecs : MockAddGroup(group)
    \/ \E uid \in Uids : MockGetUserByUid(uid)
    \/ \E username \in Names : MockGetUserByName(username)
    \/ \E gid \in Gids : MockGetGroupByGid(gid)
    \/ \E group_name \in GroupNames : MockGetGroupByName(group_name)
    \/ MockGetCurrentUid
    \/ MockGetEffectiveUid
    \/ MockGetCurrentUsername
    \/ MockGetEffectiveUsername

SpecMock == InitMock /\ [][NextMock]_vars

\* The Groups side of a MockUsers: its current ids and group names.
NextMockGroups ==
    \/ \E user \in MockUserRecs : MockAddUser(user)
    \/ \E group \in MockGroupRecs : MockAddGroup(group)
    \/ MockGetCurrentUid
    \/ MockGetCurrentGid
    \/ MockGetEffectiveGid
    \/ MockGetCurrentGroupname
    \/ MockGetEffectiveGroupname

SpecMockGroups == InitMock /\ [][NextMockGroups]_vars

\* No two records of a passwd table share a uid or a name.
UniqueUsers(db) ==
    \A i, j \in 1..Len(db) :
        i # j => db[i].pw_uid # db[j].pw_uid /\ db[i].pw_name # db[j].pw_name

\* The MockUsers a test builds for a process and its databases: created with
\* the process's uid, then one add_user or add_group for each record.
RECURSIVE MockFilled(_, _, _)
MockFilled(m, users, groups) ==
    IF users # <<>>
    THEN MockFilled(MockUsers_add_user(m, Unwrap(passwd_to_user(Some(Head(users))))),
                    Tail(users), groups)
    ELSE IF groups # <<>>
    THEN MockFilled(MockUsers_add_group(m, Unwrap(struct_to_group(Some(Head(groups))))),
                    users, Tail(groups))
    ELSE m

\* The cache over the tables whose ids and names are unique: the lookups and
\* the current uid.
InitSame ==
    /\ snapshot \in {"lib", "os"}
    /\ passwd \in { db \in PasswdDbs : UniqueUsers(db) }
    /\ seen = Range(passwd)
    /\ groupdb \in GroupDbs
    /\ proc \in { [uid |-> c, euid |-> c, gid |-> c, egid |-> c] : c \in Uids }
    /\ InitCache

NextSame ==
    \/ \E uid \in Uids : GetUserByUid(uid)
    \/ \E username \in Names : GetUserByName(username)
    \/ \E gid \in Gids : GetGroupByGid(gid)
    \/ \E group_name \in GroupNames : GetGroupByName(group_name)
    \/ GetCurrentUid

SpecSame == InitSame /\ [][NextSame]_vars

\* What gr_mem can point at: nothing, or pointers to "a" and "b" and null
\* pointers, with one null pointer at least; what follows the first null
\* pointer is memory the array does not own.
MemberArrays ==
    { None } \cup
    { Some(arr) : arr \in { a \in SeqsUpTo({ Some(<<97, NUL>>), Some(<<98, NUL>>), None },
                                            MaxMembers) :
                                \E i \in 1..Len(a) : a[i] = None } }

\* The uncached group lookups over a group with every such member list.
InitMembers ==
    /\ snapshot \in {"lib", "os"}
    /\ passwd = <<>>
    /\ seen = {}
    /\ groupdb \in { << [gr_name |-> <<97, NUL>>, gr_gid |-> 1, gr_mem |-> mem] >> :
                        mem \in MemberArrays }
    /\ proc = [uid |-> 1, euid |-> 1, gid |-> 1, egid |-> 1]
    /\ InitCache

NextMembers ==
    \/ \E gid \in Gids : UncachedGetGroupByGid(gid)
    \/ \E group_name \in GroupNames : UncachedGetGroupByName(group_name)

SpecMembers == InitMembers /\ [][NextMembers]_vars

\* ------------------------------------------- lookups over an unchecked libc
\* What getpwuid_r / getpwnam_r (and getpwuid / getpwnam) hand back when
\* nothing is assumed of the database behind them: a null result, a result
\* that points at the caller's struct filled with some record of the table,
\* or a result that points elsewhere.
Answers(db) ==
    { [result |-> "null", passwd |-> None] } \cup
    { [result |-> at, passwd |-> Some(r)] : at \in {"passwd", "other"}, r \in Range(db) }

\* src/src/base.rs: get_user_by_uid and get_user_by_name after the call.
r_lookup(answer) ==
    IF answer.result = "null" THEN None
    ELSE IF answer.result # "passwd" THEN None
    ELSE passwd_to_user(answer.passwd)

\* src/src/base/unix.rs: the pointer getpwuid / getpwnam returns is converted.
unix_lookup(answer) ==
    passwd_to_user(IF answer.result = "null" THEN None ELSE answer.passwd)

raw_get_user_by_uid(snap, answer, uid) ==
    [ret |-> IF snap = "base" THEN r_lookup(answer) ELSE unix_lookup(answer),
     trace |-> << Call(IF snap = "base" THEN "getpwuid_r" ELSE "getpwuid", uid, <<>>) >>]

raw_get_user_by_name(snap, answer, username) ==
    LET username_c == CStringNew(username)
    IN  IF username_c # None
        THEN [ret |-> IF snap = "base" THEN r_lookup(answer) ELSE unix_lookup(answer),
              trace |-> << Call(IF snap = "base" THEN "getpwnam_r" ELSE "getpwnam",
                                0, Unwrap(username_c)) >>]
        ELSE [ret |-> None, trace |-> <<>>]

RawGetUserByUid(uid) ==
    \E answer \in Answers(passwd) :
        /\ ReturnedFree(Call("raw::get_user_by_uid", uid, <<>>),
                        raw_get_user_by_uid(snapshot, answer, uid))
        /\ UNCHANGED <<env, hist>>

RawGetUserByName(username) ==
    \E answer \in Answers(passwd) :
        /\ ReturnedFree(Call("raw::get_user_by_name", 0, username),
                        raw_get_user_by_name(snapshot, answer, username))
        /\ UNCHANGED <<env, hist>>

InitRaw ==
    /\ snapshot \in {"base", "unix"}
    /\ passwd \in PasswdDbs
    /\ seen = Range(passwd)
    /\ groupdb = <<>>
    /\ proc = [uid |-> 1, euid |-> 1, gid |-> 1, egid |-> 1]
    /\ InitCache

NextRaw ==
    \/ \E uid \in Uids : RawGetUserByUid(uid)
    \/ \E username \in Names : RawGetUserByName(username)

SpecRaw == InitRaw /\ [][NextRaw]_vars

\* ------------------------------------------------ raw lookups, step by step
\* A raw lookup is two steps: the libc call, which leaves a pointer to the
\* record, and the conversion, which reads the record behind the pointer.
\* getpwuid, getpwnam and getpwent store the record in libc's static buffer;
\* getpwuid_r and getpwnam_r store it in the struct and buffer of the caller.

MaxLookups == 2

\* The strings a User owns are copies of the C string read; a string that
\* borrowed would change with the storage it points into.
to_string_lossy(p) == [bytes |-> CStrBytes(p), borrowed |-> TRUE]

into_owned_borrows(cow) == cow

into_owned(cow) == [cow EXCEPT !.borrowed = FALSE]

\* Where the answer of a lookup is stored, and the pointer handed back.
StoreAnswer(reentrant, buf, found) ==
    IF found = None THEN [buffer |-> buf, pointer |-> "null", passwd |-> None]
    ELSE IF reentrant
    THEN [buffer |-> buf, pointer |-> "passwd", passwd |-> found]
    ELSE [buffer |-> found, pointer |-> "static", passwd |-> None]

\* ptr::read: the struct behind the pointer a thread holds, now.
Deref(th, buf) ==
    IF th.pointer = "null" THEN None
    ELSE IF th.pointer = "passwd" THEN th.passwd
    ELSE buf

\* A record in the hands of the caller: the User, what it was when it was
\* returned, and whether its name still points into libc's buffer.
Keep(pw) ==
    LET name == into_owned(to_string_lossy(pw.pw_name))
        user == [Unwrap(passwd_to_user(Some(pw))) EXCEPT !.name = name.bytes]
    IN  [user |-> user, was |-> user, borrowed |-> name.borrowed]

\* libc rewrites its static buffer: a name that borrowed from it reads anew.
Rewritten(held, buf) ==
    [i \in DOMAIN held |->
        IF held[i].borrowed /\ buf # None
        THEN [held[i] EXCEPT !.user.name = CStrBytes(Unwrap(buf).pw_name)]
        ELSE held[i]]

\* Thread t makes the libc call of operation `o`, which finds `found`.
ThreadCalls(t, reentrant, o, found) ==
    LET sys == StoreAnswer(reentrant, buffer, found)
    IN  /\ threads[t].pc = "idle"
        /\ Len(threads[t].held) < MaxLookups
        /\ buffer' = sys.buffer
        /\ threads' = [u \in Tids |->
              LET held == Rewritten(threads[u].held, sys.buffer)
              IN  IF u = t
                  THEN [pc |-> "called", op |-> o, pointer |-> sys.pointer,
                        passwd |-> sys.passwd, ret |-> None, held |-> held]
                  ELSE [threads[u] EXCEPT !.held = held]]

\* src/src/base.rs calls getpwuid_r and getpwnam_r; src/src/base/unix.rs and
\* src/src/lib.rs call getpwuid and getpwnam.
Reentrant(snap) == snap = "base"

others == <<snapshot, passwd, groupdb, proc, cache, calls, op, ret, trace,
            panicked, seen, hist, guards, iters, mock, mocklog, nest>>

ThreadGetUserByUid(t, uid) ==
    /\ ThreadCalls(t, Reentrant(snapshot), Call("get_user_by_uid", uid, <<>>),
                   getpwuid(passwd, uid))
    /\ UNCHANGED <<others, cursor>>

\* A name with an interior NUL returns None with no libc call.
ThreadGetUserByName(t, username) ==
    LET username_c == CStringNew(username)
        o == Call("get_user_by_name", 0, username)
    IN  /\ IF username_c # None
           THEN ThreadCalls(t, Reentrant(snapshot), o,
                            getpwnam(passwd, Unwrap(username_c)))
           ELSE /\ threads[t].pc = "idle"
                /\ threads' = [threads EXCEPT ![t].op = o, ![t].ret = None]
                /\ UNCHANGED buffer
        /\ UNCHANGED <<others, cursor>>

\* Iterator::next of AllUsers: getpwent has the static buffer only.
ThreadNext(t) ==
    LET sys == getpwent(cursor, passwd)
    IN  /\ ThreadCalls(t, FALSE, Call("AllUsers::next", 0, <<>>), sys.ptr)
        /\ cursor' = sys.cursor
        /\ UNCHANGED others

\* passwd_to_user: thread t reads the record behind its pointer, copies the
\* fields and returns the User to its caller.
ThreadConverts(t) ==
    LET pw == Deref(threads[t], buffer)
    IN  /\ threads[t].pc = "called"
        /\ threads' = [threads EXCEPT ![t] =
              [pc |-> "idle", op |-> @.op, pointer |-> "null", passwd |-> None,
               ret |-> passwd_to_user(pw),
               held |-> IF pw = None THEN @.held
                        ELSE Append(@.held, Keep(Unwrap(pw)))]]
        /\ UNCHANGED <<others, cursor, buffer>>

InitThreads ==
    /\ snapshot \in {"base", "unix"}
    /\ passwd \in PasswdDbs
    /\ seen = Range(passwd)
    /\ groupdb = <<>>
    /\ proc = [uid |-> 1, euid |-> 1, gid |-> 1, egid |-> 1]
    /\ InitCache

\* Two threads, each calling the lookups by id and by name.
NextThreads ==
    \E t \in Tids :
        \/ \E uid \in Uids : ThreadGetUserByUid(t, uid)
        \/ \E username \in Names : ThreadGetUserByName(t, username)
        \/ ThreadConverts(t)

SpecThreads == InitThreads /\ [][NextThreads]_vars

\* One thread, calling the lookups and advancing an iterator.
NextCopy ==
    \/ \E uid \in Uids : ThreadGetUserByUid(1, uid)
    \/ \E username \in Names : ThreadGetUserByName(1, username)
    \/ ThreadNext(1)
    \/ ThreadConverts(1)

SpecCopy == InitThreads /\ [][NextCopy]_vars

\* ------------------------------------------- building records for tests
\* User::new / Group::new and the with_* builders of UserExt and GroupExt.
\* src/src/base.rs ("base") has a password; src/src/base/mod.rs ("mod") has
\* none.

Paths == { "/home/a", "/bin/sh" }

UserExtras_default(snap) ==
    IF snap = "base"
    THEN [home_dir |-> "/var/empty", shell |-> "/bin/false", password |-> "*"]
    ELSE [home_dir |-> "/var/empty", shell |-> "/bin/false"]

User_new(snap, uid, name, primary_group) ==
    [uid |-> uid, name |-> name, primary_group |-> primary_group,
     extras |-> UserExtras_default(snap)]

Group_new(gid, name) == [gid |-> gid, name |-> name, extras |-> [members |-> <<>>]]

\* A with_home_dir that starts from fresh extension fields.
with_home_dir_fresh(self, home_dir) ==
    [self EXCEPT !.extras = [shell |-> "/bin/false", password |-> "*",
                             home_dir |-> home_dir]]

with_home_dir(self, home_dir) == [self EXCEPT !.extras.home_dir = home_dir]

with_shell(self, shell) == [self EXCEPT !.extras.shell = shell]

with_password(self, password) == [self EXCEPT !.extras.password = password]

\* An add_member that leaves out a name the group already has.
add_member_once(self, member) ==
    IF \E i \in 1..Len(self.extras.members) : self.extras.members[i] = member
    THEN self
    ELSE [self EXCEPT !.extras.members = Append(@, member)]

add_member(self, member) == [self EXCEPT !.extras.members = Append(@, member)]

\* `ret` holds the record under construction.
Built(o, record) ==
    /\ op' = o
    /\ ret' = Some(record)
    /\ UNCHANGED <<env, hist, cache, calls, trace, panicked>>

IsUser(r) == r # None /\ "uid" \in DOMAIN Unwrap(r)

\* A Group as Group::new makes it, with its extension fields.
IsGroup(r) == r # None /\ {"gid", "extras"} \subseteq DOMAIN Unwrap(r)

UserNew(uid, name, primary_group) ==
    Built(Call("User::new", uid, name), User_new(snapshot, uid, name, primary_group))

GroupNew(gid, name) == Built(Call("Group::new", gid, name), Group_new(gid, name))

WithHomeDir(home_dir) ==
    /\ IsUser(ret)
    /\ Built(Call("with_home_dir", 0, <<home_dir>>), with_home_dir(Unwrap(ret), home_dir))

WithShell(shell) ==
    /\ IsUser(ret)
    /\ Built(Call("with_shell", 0, <<shell>>), with_shell(Unwrap(ret), shell))

WithPassword(password) ==
    /\ IsUser(ret)
    /\ snapshot = "base"
    /\ Built(Call("with_password", 0, <<password>>), with_password(Unwrap(ret), password))

AddMember(member) ==
    /\ IsGroup(ret)
    /\ Len(Unwrap(ret).extras.members) < MaxMembers
    /\ Built(Call("add_member", 0, <<member>>), add_member(Unwrap(ret), member))

InitBuild ==
    /\ snapshot \in {"base", "mod"}
    /\ passwd = <<>>
    /\ seen = {}
    /\ groupdb = <<>>
    /\ proc = [uid |-> 1, euid |-> 1, gid |-> 1, egid |-> 1]
    /\ InitCache

NextBuild ==
    \/ \E uid \in Uids, name \in Names, gid \in Gids : UserNew(uid, name, gid)
    \/ \E gid \in Gids, name \in Names : GroupNew(gid, name)
    \/ \E path \in Paths : WithHomeDir(path)
    \/ \E path \in Paths : WithShell(path)
    \/ \E password \in Paths : WithPassword(password)
    \/ \E member \in Names : AddMember(member)

SpecBuild == InitBuild /\ [][NextBuild]_vars

\* Groups made by Group::new and filled by add_member, beside groups looked
\* up over every raw member array.
InitOrder ==
    /\ snapshot \in {"base", "mod"}
    /\ passwd = <<>>
    /\ seen = {}
    /\ groupdb \in { << [gr_name |-> <<97, NUL>>, gr_gid |-> 1, gr_mem |-> mem] >> :
                        mem \in MemberArrays }
    /\ proc = [uid |-> 1, euid |-> 1, gid |-> 1, egid |-> 1]
    /\ InitCache

NextOrder ==
    \/ \E name \in Names : GroupNew(1, name)
    \/ \E member \in Names : AddMember(member)
    \/ \E gid \in Gids : UncachedGetGroupByGid(gid)

SpecOrder == InitOrder /\ [][NextOrder]_vars

\* ------------------------------------------------------ lists of groups
\* get_user_groups and group_access_list of src/src/base.rs: libc writes a
\* list of gids into a buffer of zeros, and every gid of the buffer is looked
\* up.  The buffer of 1024 entries is scaled down to BuffLen.

BuffLen == 3

ListGids == {0, 1}

\* The group tables of these functions: root (gid 0) and the group "a".
ListGroupRecs ==
    { [gr_name |-> <<114, NUL>>, gr_gid |-> 0, gr_mem |-> None] } \cup GroupRecs

ListGroupDbs == { s \in SeqsUpTo(ListGroupRecs, 2) : NoRepeat(s) }

\* vec![0; 1024]
ZeroBuff == [i \in 1..BuffLen |-> 0]

\* The first n entries of buff replaced by those of list.
Written(buff, list, n) ==
    [i \in 1..Len(buff) |-> IF i <= n THEN list[i] ELSE buff[i]]

\* getgrouplist(name, gid, buff, &count): writes the groups of the user, as
\* many as fit; -1 when they do not all fit.  count is set to their number.
getgrouplist(list, buff, count) ==
    IF Len(list) > count
    THEN [res |-> -1, buff |-> Written(buff, list, count), count |-> Len(list)]
    ELSE [res |-> Len(list), buff |-> Written(buff, list, Len(list)),
          count |-> Len(list)]

\* getgroups(size, buff): writes the group access list of the process and
\* returns its length; -1, writing nothing, when it does not fit.
getgroups(list, size, buff) ==
    IF Len(list) > size THEN [res |-> -1, buff |-> buff]
    ELSE [res |-> Len(list), buff |-> Written(buff, list, Len(list))]

\* Vec::dedup: of consecutive equal elements the first stays.
Dedup(s) ==
    LET F[i \in 0..Len(s)] ==
            IF i = 0 THEN <<>>
            ELSE IF i > 1 /\ s[i] = s[i - 1] THEN F[i - 1]
            ELSE Append(F[i - 1], s[i])
    IN  F[Len(s)]

\* groups.dedup_by_key(|i| i.gid()): the same, comparing the gids.
dedup_by_key(groups) ==
    LET F[i \in 0..Len(groups)] ==
            IF i = 0 THEN <<>>
            ELSE IF i > 1 /\ groups[i].gid = groups[i - 1].gid THEN F[i - 1]
            ELSE Append(F[i - 1], groups[i])
    IN  F[Len(groups)]

\* buff.into_iter().filter_map(|i| get_group_by_gid(i)).collect()
RECURSIVE LookedUp(_, _)
LookedUp(db, buff) ==
    IF buff = <<>> THEN <<>>
    ELSE LET g == base_get_group_by_gid(db, Head(buff)).ret
         IN  (IF g = None THEN <<>> ELSE <<Unwrap(g)>>) \o LookedUp(db, Tail(buff))

\* What a call of the two functions hands back, with what libc wrote.
ListOutcome(res, sys, panic) == [ret |-> res, trace |-> sys, panicked |-> panic]

Listed(fn, sys, n) ==
    [fn |-> fn, id |-> 0, name |-> <<>>, errno |-> IF sys.res < 0 THEN 1 ELSE 0,
     wrote |-> SubSeq(sys.buff, 1, n)]

\* get_user_groups: CString::new(..).unwrap() panics on a NUL in the name.
get_user_groups(db, list, username, gid) ==
    LET name == CStringNew(username)
        sys == getgrouplist(list, ZeroBuff, BuffLen)
        call == Listed("getgrouplist", sys, IF sys.res < 0 THEN BuffLen ELSE sys.count)
    IN  IF name = None THEN ListOutcome(None, <<>>, TRUE)
        ELSE IF sys.res < 0 THEN ListOutcome(None, <<call>>, FALSE)
        ELSE ListOutcome(Some(LookedUp(db, Dedup(sys.buff))), <<call>>, FALSE)

\* group_access_list: Err is None here, Ok(groups) is Some(groups).
group_access_list(db, list) ==
    LET sys == getgroups(list, BuffLen, ZeroBuff)
        call == Listed("getgroups", sys, IF sys.res < 0 THEN 0 ELSE sys.res)
    IN  IF sys.res < 0 THEN ListOutcome(None, <<call>>, FALSE)
        ELSE ListOutcome(Some(dedup_by_key(LookedUp(db, sys.buff))), <<call>>, FALSE)

ListReturned(o, out) ==
    /\ ~panicked
    /\ op' = o
    /\ ret' = out.ret
    /\ trace' = out.trace
    /\ panicked' = out.panicked
    /\ UNCHANGED <<env, hist, cache, calls>>

\* The groups libc lists for a user start with the gid given in the call.
GetUserGroups(username, gid) ==
    \E rest \in SeqsUpTo(ListGids, BuffLen) :
        ListReturned(Call("get_user_groups", gid, username),
                     get_user_groups(groupdb, <<gid>> \o rest, username, gid))

GroupAccessList ==
    \E list \in SeqsUpTo(ListGids, BuffLen + 1) :
        ListReturned(Call("group_access_list", 0, <<>>),
                     group_access_list(groupdb, list))

InitLists ==
    /\ snapshot = "base"
    /\ passwd \in { db \in PasswdDbs : Len(db) <= 1 }
    /\ seen = Range(passwd)
    /\ groupdb \in ListGroupDbs
    /\ proc = [uid |-> 1, euid |-> 1, gid |-> 1, egid |-> 1]
    /\ InitCache

NextLists ==
    \/ \E username \in Names, gid \in ListGids : GetUserGroups(username, gid)
    \/ GroupAccessList
    \/ \E username \in Names : UncachedGetUserByName(username)
    \/ \E group_name \in GroupNames : UncachedGetGroupByName(group_name)

SpecLists == InitLists /\ [][NextLists]_vars

\* ------------------------------------------- lookups with a fixed buffer
\* get_user_by_uid, get_user_by_name, get_group_by_gid and get_group_by_name
\* of src/src/base.rs hand libc a buffer of 2048 bytes for the strings of the
\* record; getpwuid_r and its kin fail, leaving result null, when the strings
\* do not fit.  The 2048 bytes are scaled down to BufBytes.

BufBytes == 4

\* A name that alone is longer than the buffer.
LongName == [i \in 1..BufBytes |-> 99] \o <<NUL>>

SizedPasswdRecs ==
    PasswdRecs \cup { [pw_name |-> LongName, pw_uid |-> 2, pw_gid |-> 1] }

\* A group "c" with more members than the buffer has bytes.
SizedGroupRecs ==
    GroupRecs \cup
    { [gr_name |-> <<99, NUL>>, gr_gid |-> 2,
       gr_mem |-> Some([i \in 1..BufBytes |-> Some(<<98, NUL>>)] \o <<None>>)] }

SizedPasswdDbs == SeqsUpTo(SizedPasswdRecs, 1)

SizedGroupDbs == SeqsUpTo(SizedGroupRecs, 1)

SizedNames == Names \cup { CStrBytes(LongName) }

SizedGroupNames == GroupNames \cup { <<99>> }

\* The bytes libc stores in the caller's buffer for a record: its strings,
\* each with its terminator.
PasswdBytes(r) == Terminator(r.pw_name)

GroupBytes(r) ==
    LET ms == members(r.gr_mem)
        F[i \in 0..Len(ms)] == IF i = 0 THEN 0 ELSE F[i - 1] + Len(ms[i]) + 1
    IN  Terminator(r.gr_name) + F[Len(ms)]

\* What the call leaves: result null when nothing is found or the record
\* does not fit, else result pointing at the caller's struct, filled.
Stored(found, toobig) ==
    IF found = None \/ toobig THEN [result |-> "null", passwd |-> None]
    ELSE [result |-> "passwd", passwd |-> found]

getpwuid_r(db, uid, buflen) ==
    LET found == getpwuid(db, uid)
    IN  Stored(found, found # None /\ PasswdBytes(Unwrap(found)) > buflen)

getpwnam_r(db, cname, buflen) ==
    LET found == getpwnam(db, cname)
    IN  Stored(found, found # None /\ PasswdBytes(Unwrap(found)) > buflen)

getgrgid_r(db, gid, buflen) ==
    LET found == getgrgid(db, gid)
    IN  Stored(found, found # None /\ GroupBytes(Unwrap(found)) > buflen)

getgrnam_r(db, cname, buflen) ==
    LET found == getgrnam(db, cname)
    IN  Stored(found, found # None /\ GroupBytes(Unwrap(found)) > buflen)

\* get_group_by_gid and get_group_by_name after the call.
r_lookup_group(answer) ==
    IF answer.result = "null" THEN None
    ELSE IF answer.result # "passwd" THEN None
    ELSE struct_to_group(answer.passwd)

r_get_user_by_uid(db, uid) ==
    [ret |-> r_lookup(getpwuid_r(db, uid, BufBytes)),
     trace |-> << Call("getpwuid_r", uid, <<>>) >>]

r_get_user_by_name(db, username) ==
    LET username_c == CStringNew(username)
    IN  IF username_c = None THEN [ret |-> None, trace |-> <<>>]
        ELSE [ret |-> r_lookup(getpwnam_r(db, Unwrap(username_c), BufBytes)),
              trace |-> << Call("getpwnam_r", 0, Unwrap(username_c)) >>]

r_get_group_by_gid(db, gid) ==
    [ret |-> r_lookup_group(getgrgid_r(db, gid, BufBytes)),
     trace |-> << Call("getgrgid_r", gid, <<>>) >>]

r_get_group_by_name(db, groupname) ==
    LET groupname_c == CStringNew(groupname)
    IN  IF groupname_c = None THEN [ret |-> None, trace |-> <<>>]
        ELSE [ret |-> r_lookup_group(getgrnam_r(db, Unwrap(groupname_c), BufBytes)),
              trace |-> << Call("getgrnam_r", 0, Unwrap(groupname_c)) >>]

SizedGetUserByUid(uid) ==
    /\ ReturnedFree(Call("r::get_user_by_uid", uid, <<>>), r_get_user_by_uid(passwd, uid))
    /\ UNCHANGED <<env, hist>>

SizedGetUserByName(username) ==
    /\ ReturnedFree(Call("r::get_user_by_name", 0, username),
                    r_get_user_by_name(passwd, username))
    /\ UNCHANGED <<env, hist>>

SizedGetGroupByGid(gid) ==
    /\ ReturnedFree(Call("r::get_group_by_gid", gid, <<>>), r_get_group_by_gid(groupdb, gid))
    /\ UNCHANGED <<env, hist>>

SizedGetGroupByName(groupname) ==
    /\ ReturnedFree(Call("r::get_group_by_name", 0, groupname),
                    r_get_group_by_name(groupdb, groupname))
    /\ UNCHANGED <<env, hist>>

InitSized ==
    /\ snapshot = "base"
    /\ passwd \in SizedPasswdDbs
    /\ seen = Range(passwd)
    /\ groupdb \in SizedGroupDbs
    /\ proc = [uid |-> 1, euid |-> 1, gid |-> 1, egid |-> 1]
    /\ InitCache

NextSized ==
    \/ \E uid \in Uids : SizedGetUserByUid(uid)
    \/ \E username \in SizedNames : SizedGetUserByName(username)
    \/ \E gid \in Gids : SizedGetGroupByGid(gid)
    \/ \E groupname \in SizedGroupNames : SizedGetGroupByName(groupname)

SpecSized == InitSized /\ [][NextSized]_vars

\* ================================================================== claims

IsCall(fn) == op.fn = fn

\* C1: on one cache instance the raw lookup by id runs at most once for each
\* uid and for each gid, and a get-by-id call that makes no raw lookup
\* returns what the forward map holds for that id.
C1_AtMostOneRawLookupPerId ==
    /\ \A uid \in Uids : Count(calls, Call("getpwuid", uid, <<>>)) <= 1
    /\ \A gid \in Gids : Count(calls, Call("getgrgid", gid, <<>>)) <= 1
    /\ IsCall("get_user_by_uid") =>
          /\ op.id \in DOMAIN cache.users.forward
          /\ ret = cache.users.forward[op.id]
          /\ trace \in { <<>>, << Call("getpwuid", op.id, <<>>) >> }
    /\ IsCall("get_group_by_gid") =>
          /\ op.id \in DOMAIN cache.groups.forward
          /\ ret = cache.groups.forward[op.id]
          /\ trace \in { <<>>, << Call("getgrgid", op.id, <<>>) >> }

\* A second get_user_by_uid for an id that was looked up raw before: a hit.
C1_Witness ==
    /\ IsCall("get_user_by_uid")
    /\ trace = <<>>
    /\ ret # None
    /\ Count(calls, Call("getpwuid", op.id, <<>>)) = 1

\* Whether the database has held, at any time since the cache was created, a
\* record with this uid, or with this name.
EverHadUid(uid) == \E r \in seen : r.pw_uid = uid

EverHadName(name) == \E r \in seen : CStrBytes(r.pw_name) = name

\* C2: an id, or a name, that has no record is looked up raw at most once on
\* one cache instance, and every lookup of it returns not-found, also while
\* the rest of the database changes.
C2_NegativeResultsMemoized ==
    /\ \A uid \in Uids : ~EverHadUid(uid) =>
          /\ Count(calls, Call("getpwuid", uid, <<>>)) <= 1
          /\ uid \in DOMAIN cache.users.forward => cache.users.forward[uid] = None
          /\ (IsCall("get_user_by_uid") /\ op.id = uid) => ret = None /\ ~panicked
    /\ \A name \in Names : ~EverHadName(name) =>
          /\ Count(calls, Call("getpwnam", 0, name \o <<NUL>>)) <= 1
          /\ name \in DOMAIN cache.users.backward => cache.users.backward[name] = None
          /\ (IsCall("get_user_by_name") /\ op.name = name) => ret = None /\ ~panicked

\* A repeated lookup of a uid that never had a record, answered without a raw
\* call, after the database has changed.
C2_Witness ==
    /\ IsCall("get_user_by_uid")
    /\ ~EverHadUid(op.id)
    /\ trace = <<>>
    /\ ret = None
    /\ Count(calls, Call("getpwuid", op.id, <<>>)) = 1
    /\ seen # Range(passwd)

\* C3: once get_user_by_name(n) has resolved to a record with uid i, every
\* later get_user_by_uid(i) on the cache returns a record named n and makes
\* no raw lookup; once get_user_by_uid(i) has resolved to a record named n,
\* every later get_user_by_name(n) returns a record with uid i, without a raw
\* lookup.
C3_CrossIndexConsistency ==
    /\ IsCall("get_user_by_uid") =>
          \A n \in Names : <<n, op.id>> \in hist.byname =>
              /\ ~panicked
              /\ trace = <<>>
              /\ ret # None
              /\ Unwrap(ret).name = n
    /\ IsCall("get_user_by_name") =>
          \A i \in Uids : <<i, op.name>> \in hist.byuid =>
              /\ ~panicked
              /\ trace = <<>>
              /\ ret # None
              /\ Unwrap(ret).uid = i

\* What a lookup of an already resolved name returns: None for a cached miss,
\* else whatever the forward map holds under the cached uid.
ByNameCached(c, name) ==
    IF c.users.backward[name] = None THEN None
    ELSE c.users.forward[Unwrap(c.users.backward[name])]

\* C4: a uid or a name that is resolved on the cache (to a record or to
\* not-found) keeps that outcome through every later step.
C4_ResolvedNeverChanges ==
    [][ /\ \A uid \in DOMAIN cache.users.forward :
              /\ uid \in DOMAIN cache'.users.forward
              /\ cache'.users.forward[uid] = cache.users.forward[uid]
        /\ \A name \in DOMAIN cache.users.backward :
              /\ name \in DOMAIN cache'.users.backward
              /\ ByNameCached(cache', name) = ByNameCached(cache, name) ]_vars

\* C5: the two user indexes agree in every state: a record under forward[i]
\* has its name bound to i in backward, and a name bound to i in backward has
\* a record of that name under forward[i].
C5_IndexesAgree ==
    /\ \A i \in DOMAIN cache.users.forward :
          \A r \in cache.users.forward[i] :
              /\ r.name \in DOMAIN cache.users.backward
              /\ cache.users.backward[r.name] = Some(i)
    /\ \A n \in DOMAIN cache.users.backward :
          \A i \in cache.users.backward[n] :
              /\ i \in DOMAIN cache.users.forward
              /\ cache.users.forward[i] # None
              /\ Unwrap(cache.users.forward[i]).name = n

HasNul(name) == \E i \in 1..Len(name) : name[i] = NUL

\* A C string as libc must be handed one: its only NUL is its last byte.
IsCString(buf) == Len(buf) >= 1 /\ Terminator(buf) = Len(buf)

\* C6: a lookup by a name with an embedded NUL, through the cache or not, for
\* users or for groups, returns not-found whatever the cache holds, and libc
\* is never called with such a name.
C6_NulNameIsNotFound ==
    /\ (op.fn \in {"get_user_by_name", "get_group_by_name",
                   "base::get_user_by_name", "base::get_group_by_name"}
        /\ HasNul(op.name)) =>
          /\ ret = None
          /\ trace = <<>>
          /\ ~panicked
    /\ \A call \in (DOMAIN calls) \cup Range(trace) :
          call.fn \in {"getpwnam", "getgrnam"} => IsCString(call.name)

\* The NUL name asked of a cache that already holds a resolved user.
C6_Witness ==
    /\ IsCall("get_user_by_name")
    /\ HasNul(op.name)
    /\ ret = None
    /\ \E uid \in DOMAIN cache.users.forward : cache.users.forward[uid] # None
    /\ <<97>> \in DOMAIN cache.users.backward

\* C7: a cached lookup by a name with an embedded NUL leaves the cache as it
\* was, adding no entry to any of the four maps, and a lookup of a valid name
\* that is not yet in the backward map reaches getpwnam.
C7_NulNameLeavesCacheUnchanged ==
    [][ /\ (op'.fn \in {"get_user_by_name", "get_group_by_name"} /\ HasNul(op'.name))
              => cache' = cache
        /\ (op'.fn = "get_user_by_name" /\ ~HasNul(op'.name)
             /\ op'.name \notin DOMAIN cache.users.backward)
              => trace' = << Call("getpwnam", 0, op'.name \o <<NUL>>) >> ]_vars

\* The four memoized ids of a cache, each with its accessor, the libc call
\* that reads it and the id of the process it reads.
IdFields ==
    { [field |-> "uid",  fn |-> "get_current_uid",   sys |-> "getuid"],
      [field |-> "gid",  fn |-> "get_current_gid",   sys |-> "getgid"],
      [field |-> "euid", fn |-> "get_effective_uid", sys |-> "geteuid"],
      [field |-> "egid", fn |-> "get_effective_gid", sys |-> "getegid"] }

\* C8: each of the four ids of the process is read from the OS at most once
\* on one cache: the first call of an accessor makes the one read, stores and
\* returns the process's id of that moment, every later call returns the
\* stored value with no read, the stored value survives every change of the
\* process's ids, and an accessor leaves the other three fields as they are.
C8_IdsReadOnceAndIndependently ==
    [][\A f \in IdFields :
        /\ cache[f.field] # None => cache'[f.field] = cache[f.field]
        /\ Count(calls', Call(f.sys, 0, <<>>)) <= 1
        /\ op'.fn = f.fn =>
              /\ \A g \in IdFields \ {f} : cache'[g.field] = cache[g.field]
              /\ IF cache[f.field] # None
                 THEN ret' = cache[f.field] /\ trace' = <<>>
                 ELSE /\ ret' = Some(proc[f.field])
                      /\ cache'[f.field] = ret'
                      /\ trace' = << Call(f.sys, 0, <<>>) >>]_vars

\* C8's case: get_effective_uid answers from its field, without a read, an
\* id the process no longer has, and the effective gid is still unread.
C8_Witness ==
    /\ IsCall("get_effective_uid")
    /\ trace = <<>>
    /\ ret # Some(proc.euid)
    /\ cache.egid = None
    /\ cache.uid # None

\* C10: switch_user_group(uid, gid) reads the effective uid and the effective
\* gid, then sets the effective gid to gid, and only after that has succeeded
\* sets the effective uid to uid; when setting the gid fails it returns that
\* error, and the only calls it makes afterwards put back the ids it read.
C10_GroupBeforeUser ==
    [][op'.fn = "switch_user_group" =>
        LET t == trace'
            uid == op'.id
            gid == op'.name[1]
            restores == { Sys("seteuid", proc.euid, <<>>, e) : e \in Verdicts }
                        \cup { Sys("setegid", proc.egid, <<>>, e) : e \in Verdicts }
        IN  /\ Len(t) >= 3
            /\ t[1] = Call("geteuid", 0, <<>>)
            /\ t[2] = Call("getegid", 0, <<>>)
            /\ t[3].fn = "setegid" /\ t[3].id = gid
            /\ IF t[3].errno = 0
               THEN Len(t) >= 4 /\ t[4].fn = "seteuid" /\ t[4].id = uid
               ELSE /\ ~panicked'
                    /\ ret' = Err(t[3].errno)
                    /\ \A i \in 4..Len(t) : t[i] \in restores]_vars

\* C9: each of the four current/effective name accessors returns the name of
\* the record that the matching get-by-id returns for the matching id
\* accessor on the same cache (not-found exactly when that lookup is), and
\* over any number of calls each id is read from the OS at most once and each
\* record looked up raw at most once.
C9_NamesComposeIdAndLookup ==
    /\ IsCall("get_current_username") =>
          LET id == OSUsers_get_current_uid(cache, proc)
              found == OSUsers_get_user_by_uid(id.cache, passwd, Unwrap(id.ret))
          IN  ret = MapName(found.ret) /\ id.trace = <<>> /\ found.trace = <<>>
    /\ IsCall("get_effective_username") =>
          LET id == OSUsers_get_effective_uid(cache, proc)
              found == OSUsers_get_user_by_uid(id.cache, passwd, Unwrap(id.ret))
          IN  ret = MapName(found.ret) /\ id.trace = <<>> /\ found.trace = <<>>
    /\ IsCall("get_current_groupname") =>
          LET id == OSUsers_get_current_gid(cache, proc)
              found == OSUsers_get_group_by_gid(id.cache, groupdb, Unwrap(id.ret))
          IN  ret = MapName(found.ret) /\ id.trace = <<>> /\ found.trace = <<>>
    /\ IsCall("get_effective_groupname") =>
          LET id == OSUsers_get_effective_gid(cache, proc)
              found == OSUsers_get_group_by_gid(id.cache, groupdb, Unwrap(id.ret))
          IN  ret = MapName(found.ret) /\ id.trace = <<>> /\ found.trace = <<>>
    /\ \A fn \in {"getuid", "geteuid", "getgid", "getegid"} :
          Count(calls, Call(fn, 0, <<>>)) <= 1
    /\ \A uid \in Uids : Count(calls, Call("getpwuid", uid, <<>>)) <= 1
    /\ \A gid \in Gids : Count(calls, Call("getgrgid", gid, <<>>)) <= 1

\* get_current_username called again, answered from the cache alone, for a
\* process whose real and effective uid differ and name different users.
C9_Witness ==
    /\ IsCall("get_current_username")
    /\ trace = <<>>
    /\ ret # None
    /\ proc.uid # proc.euid
    /\ Count(calls, Call("getuid", 0, <<>>)) = 1
    /\ Count(calls, Call("getpwuid", proc.uid, <<>>)) = 1

\* The calls of a trace that the OS refused.
Refused(t) == { i \in 1..Len(t) : t[i].errno # 0 }

\* C11: a successful switch_user_group(C, D) from effective ids (A, B) leaves
\* the process with effective ids (C, D) and hands out a guard holding
\* (A, B); disposing a guard without a panic leaves the process with the
\* effective ids the guard holds, and with its real ids as they were.
C11_GuardRestores ==
    [][/\ (op'.fn = "switch_user_group" /\ ~panicked' /\ ret'.ok) =>
              /\ guards' = Append(guards, [uid |-> proc.euid, gid |-> proc.egid])
              /\ proc'.euid = op'.id
              /\ proc'.egid = op'.name[1]
       /\ (op'.fn = "drop" /\ ~panicked') =>
              /\ proc'.euid = op'.id
              /\ proc'.egid = op'.name[1]
              /\ proc'.uid = proc.uid
              /\ proc'.gid = proc.gid]_vars

\* C11's case: the guard of a switch that changed both effective ids has
\* been disposed with both calls succeeding, and no guard is left.
C11_Witness ==
    /\ IsCall("drop")
    /\ ~panicked
    /\ guards = <<>>
    /\ Refused(trace) = {}
    /\ proc.euid = op.id /\ proc.egid = op.name[1]
    /\ proc.euid # proc.uid /\ proc.egid # proc.gid

\* C12: when a restoring call fails while a SwitchUserGuard is disposed, by
\* drop or on the error path of switch_user_group, the disposal panics; a
\* disposal that returns has made both restoring calls and both succeeded.
C12_RestoreFailureIsFatal ==
    /\ IsCall("drop") =>
          /\ Refused(trace) # {} => panicked
          /\ ~panicked => Len(trace) = 2 /\ Refused(trace) = {}
    /\ IsCall("switch_user_group") =>
          /\ Cardinality(Refused(trace)) >= 2 => panicked
          /\ (~panicked /\ ~ret.ok) =>
                /\ Cardinality(Refused(trace)) = 1
                /\ \E i \in Refused(trace) : Len(trace) = i + 2

\* C12's case: the uid was restored, the gid was refused, the drop panicked.
C12_Witness ==
    /\ IsCall("drop")
    /\ snapshot = "unix"
    /\ Len(trace) = 2
    /\ Refused(trace) = {2}
    /\ panicked

\* C13: each of the six set_* functions returns Ok when its OS call succeeds
\* and Err with the OS's errno when it fails, and never panics.
C13_SettersReturnTheOsVerdict ==
    op.fn \in {"set_current_uid", "set_current_gid", "set_effective_uid",
               "set_effective_gid", "set_both_uid", "set_both_gid"} =>
        /\ ~panicked
        /\ Len(trace) = 1
        /\ ret = IF trace[1].errno = 0 THEN Ok ELSE Err(trace[1].errno)

\* What an iterator that walks db undisturbed returns from its k-th next().
Expected(db, k) == IF k <= Len(db) THEN passwd_to_user(Some(db[k])) ELSE None

\* C14: an all-users iterator that never shared the process with another
\* live iterator yields the records of the database, each once and in the
\* order of the database, and after the last one signals the end.
C14_IteratorYieldsEveryRecord ==
    \A i \in 1..Len(iters) :
        iters[i].alone =>
            \A k \in 1..Len(iters[i].out) : iters[i].out[k] = Expected(passwd, k)

\* C15: for every all-users iterator the cursor is opened once, when the
\* iterator is constructed, and closed once, when it is dropped, and not
\* before.
C15_CursorOpenedAndClosedOnce ==
    \A i \in 1..Len(iters) :
        /\ iters[i].opens = 1
        /\ iters[i].closes = IF iters[i].live THEN 0 ELSE 1

\* C16: in the builds that use the OS cursor (all but Android) the cursor
\* belongs to the process and not to an iterator: constructing an iterator
\* rewinds it whatever other iterators are live, next() on any iterator
\* returns the record at the one cursor and moves it on, and dropping an
\* iterator closes it whatever other iterators are live.
C16_CursorIsProcessGlobal ==
    [][snapshot # "android" =>
        /\ op'.fn = "AllUsers::new" => cursor' = [open |-> TRUE, pos |-> 0]
        /\ op'.fn = "AllUsers::next" =>
              LET at == IF cursor.open THEN cursor.pos ELSE 0
              IN  /\ ret' = Expected(passwd, at + 1)
                  /\ cursor' = [open |-> TRUE,
                                pos |-> IF at < Len(passwd) THEN at + 1 ELSE at]
        /\ op'.fn = "AllUsers::drop" => ~cursor'.open]_vars

\* An iterator has seen the end without having yielded every record once.
Corrupted(it) ==
    /\ it.out # <<>>
    /\ it.out[Len(it.out)] = None
    /\ \E k \in 1..Len(it.out) : it.out[k] # Expected(passwd, k)

\* C16's case: two iterators were live together and neither yielded every
\* record exactly once: one saw a record twice, and a drop closed the cursor
\* while the other iterator was live.
C16_Witness ==
    /\ Len(iters) = 2
    /\ Len(passwd) >= 2
    /\ \A i \in 1..2 : ~iters[i].alone /\ Corrupted(iters[i])
    /\ \E i \in 1..2 : \E j, k \in 1..Len(iters[i].out) :
          j < k /\ iters[i].out[j] # None /\ iters[i].out[j] = iters[i].out[k]
    /\ IsCall("AllUsers::drop")
    /\ Live(iters) # {}
    /\ ~cursor.open

\* The element added last among those of a log that Test accepts.
LastAdded(log, Test(_)) ==
    LET at == { i \in 1..Len(log) : Test(log[i]) }
    IN  IF at = {} THEN None
        ELSE Some(log[CHOOSE i \in at : \A j \in at : j <= i])

\* The user, and the group, a mock holds under an id according to its log.
UserAdded(uid) == LET Test(u) == u.uid = uid IN LastAdded(mocklog.users, Test)

GroupAdded(gid) == LET Test(g) == g.gid = gid IN LastAdded(mocklog.groups, Test)

\* C17: on a MockUsers get_user_by_uid(i) returns the user added last with
\* uid i, or not-found when none was added; get_user_by_name(n) returns one
\* of the users the table holds whose name is n, or not-found when the table
\* holds none; the same for groups by gid and by name.
C17_MockTableLookups ==
    /\ IsCall("MockUsers::get_user_by_uid") => ret = UserAdded(op.id)
    /\ IsCall("MockUsers::get_group_by_gid") => ret = GroupAdded(op.id)
    /\ IsCall("MockUsers::get_user_by_name") =>
          LET held == { u \in UNION { UserAdded(uid) : uid \in Uids } :
                            u.name = op.name }
          IN  IF held = {} THEN ret = None ELSE ret # None /\ ret \subseteq held
    /\ IsCall("MockUsers::get_group_by_name") =>
          LET held == { g \in UNION { GroupAdded(gid) : gid \in Gids } :
                            g.name = op.name }
          IN  IF held = {} THEN ret = None ELSE ret # None /\ ret \subseteq held

\* C17's case: a uid was added twice under different names, and the lookup
\* by that uid returns the second user.
C17_Witness ==
    /\ IsCall("MockUsers::get_user_by_uid")
    /\ ret # None
    /\ \E i, j \in 1..Len(mocklog.users) :
          /\ i < j
          /\ mocklog.users[i].uid = op.id
          /\ mocklog.users[j] = Unwrap(ret)
          /\ mocklog.users[i].name # mocklog.users[j].name

\* C18: on a MockUsers created with current uid c, get_current_uid and
\* get_effective_uid return c whatever has been added, and
\* get_current_username returns the name of the user the table holds under
\* uid c, or not-found when it holds none.
C18_MockCurrentUid ==
    /\ IsCall("MockUsers::get_current_uid") => ret = Some(mocklog.uid)
    /\ IsCall("MockUsers::get_effective_uid") => ret = Some(mocklog.uid)
    /\ IsCall("MockUsers::get_current_username") =>
          ret = MapName(UserAdded(mocklog.uid))

\* C18's case: the current user's name is returned from a table that also
\* holds another user, under a smaller uid.
C18_Witness ==
    /\ IsCall("MockUsers::get_current_username")
    /\ ret # None
    /\ \E i \in 1..Len(mocklog.users) : mocklog.users[i].uid < mocklog.uid
    /\ \E i \in 1..Len(mocklog.groups) : TRUE

BeforeTerminator(mem) ==
    IF mem = None THEN <<>>
    ELSE LET arr == Unwrap(mem)
             stop == CHOOSE i \in 1..Len(arr) :
                         arr[i] = None /\ \A j \in 1..(i - 1) : arr[j] # None
         IN  SubSeq(arr, 1, stop - 1)

\* C20: the members of a group returned by a lookup are the names behind the
\* pointers of gr_mem that precede the first null pointer, in the order of
\* the array, one member for each pointer; a null gr_mem and an array that
\* starts with a null pointer both give the empty sequence.
C20_MembersUpToTerminator ==
    (op.fn \in {"base::get_group_by_gid", "base::get_group_by_name"} /\ ret # None) =>
        LET raw == BeforeTerminator(groupdb[1].gr_mem)
            got == Unwrap(ret).members
        IN  /\ Len(got) = Len(raw)
            /\ \A i \in 1..Len(raw) : got[i] = from_raw_buf(Unwrap(raw[i]))

\* C20's case: the array holds a pointer behind its terminator, and the
\* group returned has the one member before it.
C20_Witness ==
    /\ IsCall("base::get_group_by_gid")
    /\ ret # None
    /\ groupdb[1].gr_mem = Some(<< Some(<<98, NUL>>), None, Some(<<97, NUL>>) >>)
    /\ Unwrap(ret).members = << <<98>> >>

\* The keys of the four maps of a cache.
CacheKeys(c) ==
    << DOMAIN c.users.forward, DOMAIN c.users.backward,
       DOMAIN c.groups.forward, DOMAIN c.groups.backward >>

\* C21: the cache is only additive: in every step of every operation on one
\* OSUsers, each of the four maps keeps every key it held before the step.
C21_CacheOnlyGrows ==
    [][\A i \in 1..4 : CacheKeys(cache)[i] \subseteq CacheKeys(cache')[i]]_vars

\* C21's case: lookups have filled all four maps, and a user map holds two
\* keys, so the last insert had an older key to keep.
C21_Witness ==
    /\ \A i \in 1..4 : CacheKeys(cache)[i] # {}
    /\ Cardinality(DOMAIN cache.users.forward) = 2
    /\ Cardinality(DOMAIN cache.users.backward) = 2
    /\ op.fn \in {"get_user_by_uid", "get_user_by_name"}
    /\ trace # <<>>

\* C22: a raw lookup never returns a record that does not match its key: when
\* the OS reports success with a record of another id (lookup by id) or of
\* another name (lookup by name), the lookup returns None.
C22_MismatchIsNotFound ==
    /\ (IsCall("raw::get_user_by_uid") /\ ret # None) => Unwrap(ret).uid = op.id
    /\ (IsCall("raw::get_user_by_name") /\ ret # None) => Unwrap(ret).name = op.name

\* What the lookup a thread called returns when it runs alone.
Alone(o) ==
    IF o.fn = "get_user_by_uid" THEN base_get_user_by_uid(passwd, o.id).ret
    ELSE base_get_user_by_name(passwd, o.name).ret

\* C23: two threads that call the raw lookups at the same time each get the
\* record of their own key: under every interleaving of the libc calls and
\* the conversions, a lookup that has returned has returned what it returns
\* when it runs alone.
C23_EachThreadItsOwnRecord ==
    \A t \in Tids :
        (threads[t].pc = "idle" /\ threads[t].op # NoOp) =>
            threads[t].ret = Alone(threads[t].op)

\* C24: copy first, return second: within one thread every raw lookup and
\* every iterator advance has copied the record out of libc's storage before
\* the next call of the family is made, so the thread never makes a libc
\* call while it holds an unread pointer, and every record it was handed
\* keeps the id, the name and the primary group it was returned with, however
\* often the storage is rewritten afterwards.
C24_CopyFirstReturnSecond ==
    /\ \A i \in 1..Len(threads[1].held) :
          threads[1].held[i].user = threads[1].held[i].was
    /\ threads[1].pc = "called" => threads[1].ret = None
    /\ threads[1].pc = "idle" => threads[1].pointer = "null"

\* C24's case: the thread holds a record named "a", returned by a lookup, and
\* an iterator advance has since put a record named "b" into libc's storage.
C24_Witness ==
    /\ snapshot = "unix"
    /\ Len(threads[1].held) = 2
    /\ threads[1].held[1].user.name = <<97>>
    /\ threads[1].op.fn = "AllUsers::next"
    /\ threads[1].pc = "idle"
    /\ buffer # None
    /\ CStrBytes(Unwrap(buffer).pw_name) = <<98>>

\* The extension field a builder sets.
FieldOf(fn) ==
    CASE fn = "with_home_dir" -> "home_dir"
      [] fn = "with_shell" -> "shell"
      [] fn = "with_password" -> "password"

\* C25: a record's id and name never change after construction:
\* with_home_dir, with_shell and with_password set the one extension field
\* they name to their argument and leave uid, name, primary group and the
\* other extension fields as they were; add_member appends its argument to
\* the members and leaves gid and name as they were.
C25_BuildersKeepIdAndName ==
    [][ /\ op'.fn \in {"with_home_dir", "with_shell", "with_password"} =>
            LET before == Unwrap(ret)
                after == Unwrap(ret')
            IN  /\ after.uid = before.uid
                /\ after.name = before.name
                /\ after.primary_group = before.primary_group
                /\ DOMAIN after.extras = DOMAIN before.extras
                /\ \A f \in DOMAIN before.extras :
                      after.extras[f] = IF f = FieldOf(op'.fn) THEN op'.name[1]
                                        ELSE before.extras[f]
        /\ op'.fn = "add_member" =>
            LET before == Unwrap(ret)
                after == Unwrap(ret')
            IN  /\ after.gid = before.gid
                /\ after.name = before.name
                /\ after.extras.members = Append(before.extras.members, op'.name[1])
      ]_vars

\* C25's case: a user whose three extension fields have all been set, last
\* the home directory, and that still has the id and name it was made with.
C25_Witness ==
    /\ IsCall("with_home_dir")
    /\ IsUser(ret)
    /\ Unwrap(ret).uid = 2
    /\ Unwrap(ret).name = <<98>>
    /\ Unwrap(ret).extras = [home_dir |-> "/home/a", shell |-> "/bin/sh",
                             password |-> "/bin/sh"]

\* C26: a record returned by the cached get_user_by_name(n) or
\* get_group_by_name(n) is named n, whatever was looked up on the cache
\* before, two names that share one id included.
C26_ByNameReturnsThatName ==
    (IsCall("get_user_by_name") \/ IsCall("get_group_by_name")) =>
        \A r \in ret : r.name = op.name

\* C27: the cache-hit path of get-by-name never fails: in every state of the
\* cache an id that the backward map holds under some name is a key of the
\* forward map, for users and for groups, and no lookup has panicked.
C27_BackwardHitFindsForward ==
    /\ \A n \in DOMAIN cache.users.backward :
          \A i \in cache.users.backward[n] : i \in DOMAIN cache.users.forward
    /\ \A n \in DOMAIN cache.groups.backward :
          \A i \in cache.groups.backward[n] : i \in DOMAIN cache.groups.forward
    /\ ~panicked

\* C27's case: a lookup by name was answered from the backward map, which
\* holds an id for that name, with no libc call.
C27_Witness ==
    /\ IsCall("get_user_by_name")
    /\ trace = <<>>
    /\ op.name \in DOMAIN cache.users.backward
    /\ cache.users.backward[op.name] # None
    /\ ret = cache.users.forward[Unwrap(cache.users.backward[op.name])]
    /\ ~panicked

\* C28: when switch_user_group returns an error, because its first or its
\* second set call failed, the effective uid and gid of the process are what
\* they were before the call.
C28_FailedSwitchChangesNothing ==
    [][(op'.fn = "switch_user_group" /\ ~panicked' /\ ~ret'.ok) =>
          /\ proc'.euid = proc.euid
          /\ proc'.egid = proc.egid
          /\ guards' = guards]_vars

\* C28's case: the first set call changed the effective gid, the second was
\* refused, and the error path has put the gid back.
C28_Witness ==
    /\ IsCall("switch_user_group")
    /\ snapshot = "unix"
    /\ ~panicked
    /\ ~ret.ok
    /\ Len(trace) = 6
    /\ trace[3].fn = "setegid" /\ trace[3].errno = 0
    /\ trace[4].fn = "seteuid" /\ trace[4].errno # 0
    /\ trace[6].fn = "setegid" /\ trace[6].id # trace[3].id
    /\ proc.egid = trace[6].id

\* C29: disposing a SwitchUserGuard sets the effective uid first and the
\* effective gid second, to the ids the guard captured when it was made: the
\* ids a guard holds are the effective ids of the moment of its
\* switch_user_group and no later switch or disposal changes them.
C29_DropRestoresCapturedUidThenGid ==
    [][ /\ op'.fn = "drop" =>
            \E i \in 1..Len(guards) :
                /\ guards' = SubSeq(guards, 1, i - 1) \o SubSeq(guards, i + 1, Len(guards))
                /\ Len(trace') \in {1, 2}
                /\ trace'[1].fn = "seteuid" /\ trace'[1].id = guards[i].uid
                /\ Len(trace') = 2 =>
                      /\ trace'[1].errno = 0
                      /\ trace'[2].fn = "setegid" /\ trace'[2].id = guards[i].gid
                /\ Len(trace') = 1 => panicked'
        /\ op'.fn = "switch_user_group" =>
            /\ \A i \in 1..Len(guards) : guards'[i] = guards[i]
            /\ Len(guards') > Len(guards) =>
                  guards'[Len(guards')] = [uid |-> proc.euid, gid |-> proc.egid]
      ]_vars

\* C29's case: an older guard is disposed after a later switch has set other
\* ids: both calls are made, and the process has the ids the guard held, not
\* the ones the guard still held was made under.
C29_Witness ==
    /\ IsCall("drop")
    /\ ~panicked
    /\ Len(trace) = 2
    /\ Len(guards) = 1
    /\ proc.euid = op.id /\ proc.egid = op.name[1]
    /\ guards[1].uid # proc.euid /\ guards[1].gid # proc.egid

\* C30: when guards are nested and every one is disposed newest first, the
\* effective ids after the last disposal are those from before the first
\* switch; in any order, they are the ids held by the guard disposed last.
C30_NestedGuards ==
    (IsCall("drop") /\ ~panicked /\ guards = <<>>) =>
        /\ proc.euid = op.id /\ proc.egid = op.name[1]
        /\ nest.lifo => Unwrap(nest.origin) = [uid |-> proc.euid, gid |-> proc.egid]

\* C30's case: two guards were nested, the inner one made under other ids
\* than the outer one, and both were disposed, the inner one first.
C30_Witness ==
    /\ IsCall("drop")
    /\ ~panicked
    /\ guards = <<>>
    /\ nest.nested
    /\ nest.lifo
    /\ Unwrap(nest.origin) = [uid |-> proc.euid, gid |-> proc.egid]
    /\ proc.euid # proc.uid /\ proc.egid # proc.gid

\* Guards disposed oldest first leave the process with the ids the newest
\* guard held, which are not the ids from before the first switch.
NestedOtherOrder ==
    /\ IsCall("drop")
    /\ ~panicked
    /\ guards = <<>>
    /\ nest.nested
    /\ ~nest.lifo
    /\ Unwrap(nest.origin).uid # proc.euid
    /\ Unwrap(nest.origin).gid # proc.egid

\* The gids of a sequence of groups.
GidsOf(groups) == { groups[i].gid : i \in 1..Len(groups) }

\* C31: get_user_groups(name, gid) returns only groups that libc listed for
\* the user: the gid of every group returned is among the entries that
\* getgrouplist wrote, so the group with gid 0 is returned only when gid 0
\* was listed.
C31_OnlyListedGroups ==
    (IsCall("get_user_groups") /\ ret # None) =>
        GidsOf(Unwrap(ret)) \subseteq Range(trace[1].wrote)

\* C32: group_access_list() returns only groups of the process's group
\* access list: the gid of every group returned is among the entries that
\* getgroups wrote, so the group with gid 0 appears only when gid 0 was
\* reported.
C32_OnlyAccessListGroups ==
    (IsCall("group_access_list") /\ ret # None) =>
        GidsOf(Unwrap(ret)) \subseteq Range(trace[1].wrote)

\* C33: a user name with an embedded NUL is not-found in every operation
\* keyed by a name, get_user_groups included: the call returns None and does
\* not panic.
C33_NulNameNeverPanics ==
    (op.fn \in {"get_user_groups", "base::get_user_by_name", "base::get_group_by_name"}
        /\ HasNul(op.name)) =>
            /\ ~panicked
            /\ ret = None


\* Whether the database of the call holds a record for the key asked.
PresentUser == IF op.name = <<>> THEN getpwuid(passwd, op.id) # None
               ELSE /\ ~HasNul(op.name)
                    /\ getpwnam(passwd, op.name \o <<NUL>>) # None

PresentGroup == IF op.name = <<>> THEN getgrgid(groupdb, op.id) # None
                ELSE /\ ~HasNul(op.name)
                     /\ getgrnam(groupdb, op.name \o <<NUL>>) # None

\* C34: the uncached lookups of src/src/base.rs return a record for every
\* key the OS database holds, whatever the size of the record.
C34_PresentKeyIsFound ==
    /\ op.fn \in {"r::get_user_by_uid", "r::get_user_by_name"} /\ PresentUser
          => ret # None
    /\ op.fn \in {"r::get_group_by_gid", "r::get_group_by_name"} /\ PresentGroup
          => ret # None


\* C35: a MockUsers created with current uid c has that one current id:
\* get_current_gid and get_effective_gid return c, as get_current_uid does,
\* and get_current_groupname and get_effective_groupname return the name of
\* the group the table holds under gid c, or not-found when it holds none.
C35_MockCurrentGid ==
    /\ IsCall("MockUsers::get_current_gid") =>
          ret = Some(mocklog.uid) /\ ret = Some(MockUsers_get_current_uid(mock))
    /\ IsCall("MockUsers::get_effective_gid") =>
          ret = Some(mocklog.uid) /\ ret = Some(MockUsers_get_current_uid(mock))
    /\ IsCall("MockUsers::get_current_groupname") =>
          ret = MapName(GroupAdded(mocklog.uid))
    /\ IsCall("MockUsers::get_effective_groupname") =>
          ret = MapName(GroupAdded(mocklog.uid))

\* C35's case: the group name returned is that of the group whose gid is the
\* current uid, while the current user's primary group is another group the
\* table also holds, under another name.
C35_Witness ==
    /\ IsCall("MockUsers::get_current_groupname")
    /\ ret # None
    /\ UserAdded(mocklog.uid) # None
    /\ LET primary == Unwrap(UserAdded(mocklog.uid)).primary_group
       IN  /\ primary # mocklog.uid
           /\ GroupAdded(primary) # None
           /\ MapName(GroupAdded(primary)) # ret


\* How many entries of the sequence s are x.
Times(s, x) == Cardinality({ i \in 1..Len(s) : s[i] = x })

\* C36: member lists keep insertion order and duplicates.  add_member puts
\* the name given at the end: the entries before it stay, each at its place,
\* and the name is there once more than before, also when the group already
\* had it.  The members of a group looked up are the names of its raw array
\* up to the terminator, place by place, a name as often as the array has it.
C36_MembersKeepOrderAndRepeats ==
    [][ /\ op'.fn = "add_member" =>
            LET before == Unwrap(ret).extras.members
                after == Unwrap(ret').extras.members
                member == op'.name[1]
            IN  /\ Len(after) = Len(before) + 1
                /\ \A i \in 1..Len(before) : after[i] = before[i]
                /\ after[Len(after)] = member
                /\ Times(after, member) = Times(before, member) + 1
        /\ (op'.fn = "base::get_group_by_gid" /\ ret' # None) =>
            LET raw == BeforeTerminator(groupdb[1].gr_mem)
                got == Unwrap(ret').members
            IN  /\ Len(got) = Len(raw)
                /\ \A i \in 1..Len(raw) :
                      /\ got[i] = CStrBytes(Unwrap(raw[i]))
                      /\ Times(got, got[i]) = Times(raw, raw[i])
      ]_vars

\* C36's case: "a" was added to a group that had "a" and then "b": the group
\* has "a" twice, first and last, around "b"; the raw array of the group
\* that lookups return names "b" twice.
C36_Witness ==
    /\ IsCall("add_member")
    /\ IsGroup(ret)
    /\ Unwrap(ret).extras.members = << <<97>>, <<98>>, <<97>> >>
    /\ groupdb[1].gr_mem = Some(<< Some(<<98, NUL>>), Some(<<98, NUL>>), None >>)

====
